---------------------------- MODULE Spec2Model ----------------------------
(***************************************************************************)
(* A model of the v4/v5 compatibility core of strapi-mcp:                  *)
(*   - IdMapper              (src/src/data-mapper.ts)                      *)
(*   - AdvancedDataTransformer (src/src/data-transformer.ts)               *)
(*   - DataValidator and SchemaValidator (src/src/data-validator.ts)       *)
(*                                                                         *)
(* JavaScript values are records [t, n, s, f]: t is the type tag, n the    *)
(* number (or the heap address of a reference), s the characters of a      *)
(* string, f the fields of a freshly built object or array.  Strings are   *)
(* sequences of one-character strings so that template literals, regular   *)
(* expressions and parseInt are computed character by character.           *)
(***************************************************************************)
EXTENDS Integers, Sequences, FiniteSets, TLC

VARIABLES
  mappings,         \* IdMapper.mappings: the forward index, a JS Map in insertion order
  reverseMappings,  \* IdMapper.reverseMappings: the reverse index
  cache,            \* AdvancedDataTransformer.CIRCULAR_REF_CACHE: the objects in it
  heap,             \* the caller's objects, by address: the graph a payload is made of
  data,             \* the payload the caller holds
  ctl,              \* the transformer's control: the call being entered or the value returned
  stack,            \* the transformer's callers waiting for that value, innermost first
  last              \* the last call: its name, its arguments and its result

vars == <<mappings, reverseMappings, cache, heap, data, ctl, stack, last>>

\* what the registry's operations leave alone
payload == <<cache, heap, data, ctl, stack>>

-----------------------------------------------------------------------------
(* Bounds of the model *)

MaxRecords == 2     \* the miss path of mapV4ToV5 is taken while the registry is smaller
MaxImportLen == 2   \* longest imported array

-----------------------------------------------------------------------------
(* JavaScript values *)

Undef == [t |-> "undefined", n |-> 0, s |-> <<>>, f |-> <<>>]
Null == [t |-> "null", n |-> 0, s |-> <<>>, f |-> <<>>]
Num(i) == [t |-> "number", n |-> i, s |-> <<>>, f |-> <<>>]
Str(cs) == [t |-> "string", n |-> 0, s |-> cs, f |-> <<>>]
Bool(b) == [t |-> "boolean", n |-> IF b THEN 1 ELSE 0, s |-> <<>>, f |-> <<>>]
\* the number NaN
NaN == [t |-> "NaN", n |-> 0, s |-> <<>>, f |-> <<>>]

Ref(a) == [t |-> "ref", n |-> a, s |-> <<>>, f |-> <<>>]
\* a freshly built object: its properties [k, v] in insertion order
Obj(fields) == [t |-> "object", n |-> 0, s |-> <<>>, f |-> fields]
\* a freshly built array: its elements, each under the key ""
Arr(fields) == [t |-> "array", n |-> 0, s |-> <<>>, f |-> fields]

P(key, val) == [k |-> key, v |-> val]

\* the property key: val of an object literal, left out when val is undefined
OptField(key, val) == IF val = Undef THEN <<>> ELSE <<P(key, val)>>

\* the truthiness of a value
Truthy(v) ==
  CASE v.t \in {"undefined", "null", "NaN"} -> FALSE
    [] v.t \in {"number", "boolean"} -> v.n # 0
    [] v.t = "string" -> v.s # <<>>
    [] OTHER -> TRUE

\* a || b
OrElse(a, b) == IF Truthy(a) THEN a ELSE b

\* v && typeof v === 'object'
IsObject(v) == v.t \in {"object", "array", "ref"}

Deref(h, v) == IF v.t = "ref" THEN h[v.n] ELSE v

\* Array.isArray(v)
IsArray(h, v) == Deref(h, v).t = "array"

\* the elements of an array, in order
Elems(h, v) == [i \in 1..Len(Deref(h, v).f) |-> Deref(h, v).f[i].v]

FieldIndex(fields, key) ==
  LET hits == {i \in 1..Len(fields) : fields[i].k = key}
  IN IF hits = {} THEN 0 ELSE CHOOSE i \in hits : TRUE

\* v[key]: undefined when v is no plain object or has no such property
Prop(h, v, key) ==
  LET o == Deref(h, v)
  IN IF o.t = "object" /\ FieldIndex(o.f, key) # 0
     THEN o.f[FieldIndex(o.f, key)].v
     ELSE Undef

\* fields[key] = val: in place when the property exists, appended otherwise
SetField(fields, key, val) ==
  IF FieldIndex(fields, key) # 0
  THEN [fields EXCEPT ![FieldIndex(fields, key)] = P(key, val)]
  ELSE Append(fields, P(key, val))

\* { ...fields, ...more }
RECURSIVE Spread(_, _)
Spread(fields, more) ==
  IF more = <<>> THEN fields
  ELSE Spread(SetField(fields, Head(more).k, Head(more).v), Tail(more))

\* the rest of a destructuring: the properties whose key is not in keys
RECURSIVE RestOf(_, _)
RestOf(fields, keys) ==
  IF fields = <<>> THEN <<>>
  ELSE (IF Head(fields).k \in keys THEN <<>> ELSE <<Head(fields)>>) \o RestOf(Tail(fields), keys)

DigitChars == <<"0", "1", "2", "3", "4", "5", "6", "7", "8", "9">>

IsDigit(c) == \E i \in 1..10 : DigitChars[i] = c

DigitVal(c) == (CHOOSE i \in 1..10 : DigitChars[i] = c) - 1

\* Number.prototype.toString for a natural number
RECURSIVE NatToString(_)
NatToString(i) ==
  IF i < 10 THEN <<DigitChars[i + 1]>>
  ELSE NatToString(i \div 10) \o <<DigitChars[(i % 10) + 1]>>

\* `${v}` for a number or a string
ToStr(v) == IF v.t = "number" THEN NatToString(v.n) ELSE v.s

\* parseInt(digits, 10) for a non-empty run of digits
RECURSIVE ParseDigits(_, _)
ParseDigits(cs, acc) ==
  IF cs = <<>> THEN acc
  ELSE ParseDigits(Tail(cs), acc * 10 + DigitVal(Head(cs)))

\* the capture of /(\d+)/: the leftmost, longest run of digits; <<>> if none
FirstDigitRun(cs) ==
  LET starts == {i \in 1..Len(cs) : IsDigit(cs[i])}
  IN IF starts = {} THEN <<>>
     ELSE LET b == CHOOSE i \in starts : \A j \in starts : i <= j
              e == CHOOSE i \in b..Len(cs) :
                     /\ \A j \in b..i : IsDigit(cs[j])
                     /\ (i = Len(cs) \/ ~IsDigit(cs[i + 1]))
          IN SubSeq(cs, b, e)

\* String.prototype.indexOf; 0 when pat does not occur
IndexOf(cs, pat) ==
  LET hits == {i \in 1..(Len(cs) - Len(pat) + 1) : SubSeq(cs, i, i + Len(pat) - 1) = pat}
  IN IF hits = {} THEN 0 ELSE CHOOSE i \in hits : \A j \in hits : i <= j

\* cs.replace(pat, ''): the first occurrence of the string pat is removed
RemoveFirst(cs, pat) ==
  LET i == IndexOf(cs, pat)
  IN IF i = 0 THEN cs ELSE SubSeq(cs, 1, i - 1) \o SubSeq(cs, i + Len(pat), Len(cs))

\* cs.replace(/\.[^.]+$/, ''): the last dot and what follows it, unless the dot ends cs
RemoveLastSuffix(cs) ==
  LET dots == {i \in 1..Len(cs) : cs[i] = "."}
  IN IF dots = {} THEN cs
     ELSE LET d == CHOOSE i \in dots : \A j \in dots : j <= i
          IN IF d = Len(cs) THEN cs ELSE SubSeq(cs, 1, d - 1)

-----------------------------------------------------------------------------
(* A JavaScript Map: a sequence of entries [k, m] in insertion order *)

MapIndex(map, key) ==
  LET hits == {i \in 1..Len(map) : map[i].k = key}
  IN IF hits = {} THEN 0 ELSE CHOOSE i \in hits : TRUE

MapHas(map, key) == MapIndex(map, key) # 0

MapGet(map, key) == map[MapIndex(map, key)].m

MapSet(map, key, val) ==
  IF MapHas(map, key)
  THEN [map EXCEPT ![MapIndex(map, key)] = [k |-> key, m |-> val]]
  ELSE Append(map, [k |-> key, m |-> val])

MapDelete(map, key) ==
  LET i == MapIndex(map, key)
  IN IF i = 0 THEN map ELSE SubSeq(map, 1, i - 1) \o SubSeq(map, i + 1, Len(map))

RECURSIVE MapDeleteAll(_, _)
MapDeleteAll(map, keys) ==
  IF keys = <<>> THEN map ELSE MapDeleteAll(MapDelete(map, Head(keys)), Tail(keys))

-----------------------------------------------------------------------------
(* IdMapper (data-mapper.ts).  A registry is the pair of its two Maps; an    *)
(* IdMapping is [v4Id, v5DocumentId, contentType, createdAt].                *)

ApiPrefix == <<"a", "p", "i", ":", ":">>

\* `${contentType}:${v4Id}`
MappingKey(v4Id, contentType) == contentType \o <<":">> \o ToStr(v4Id)

generateDocumentId(v4Id, contentType, timestamp, randomSuffix) ==
  LET cleanContentType == RemoveLastSuffix(RemoveFirst(contentType, ApiPrefix))
  IN Str(cleanContentType \o <<"_">> \o ToStr(v4Id) \o <<"_">>
         \o NatToString(timestamp) \o <<"_">> \o randomSuffix)

\* mapV4ToV5 without the lookup of an existing record
mapV4ToV5_NoReuse(fwd, rev, v4Id, contentType, timestamp, randomSuffix) ==
  LET key == MappingKey(v4Id, contentType)
      documentId == generateDocumentId(v4Id, contentType, timestamp, randomSuffix)
      newMapping == [v4Id |-> v4Id, v5DocumentId |-> documentId,
                     contentType |-> contentType, createdAt |-> timestamp]
  IN [ret |-> documentId,
      fwd |-> MapSet(fwd, key, newMapping),
      rev |-> MapSet(rev, documentId, newMapping)]

\* [ret, fwd, rev]: the documentId returned and the two indices afterwards
mapV4ToV5(fwd, rev, v4Id, contentType, timestamp, randomSuffix) ==
  LET key == MappingKey(v4Id, contentType)
  IN IF MapHas(fwd, key)
     THEN [ret |-> MapGet(fwd, key).v5DocumentId, fwd |-> fwd, rev |-> rev]
     ELSE LET documentId == generateDocumentId(v4Id, contentType, timestamp, randomSuffix)
              newMapping == [v4Id |-> v4Id, v5DocumentId |-> documentId,
                             contentType |-> contentType, createdAt |-> timestamp]
          IN [ret |-> documentId,
              fwd |-> MapSet(fwd, key, newMapping),
              rev |-> MapSet(rev, documentId, newMapping)]

\* [ret, ex]: the id returned, or ex when documentId.match is not a function
mapV5ToV4(fwd, rev, documentId, contentType) ==
  IF MapHas(rev, documentId) /\ MapGet(rev, documentId).contentType = contentType
  THEN [ret |-> MapGet(rev, documentId).v4Id, ex |-> FALSE]
  ELSE LET hits == {i \in 1..Len(fwd) : /\ fwd[i].m.v5DocumentId = documentId
                                        /\ fwd[i].m.contentType = contentType}
       IN IF hits # {}
          THEN [ret |-> fwd[CHOOSE i \in hits : \A j \in hits : i <= j].m.v4Id, ex |-> FALSE]
          ELSE IF documentId.t # "string"
          THEN [ret |-> Undef, ex |-> TRUE]
          ELSE LET numericMatch == FirstDigitRun(documentId.s)
               IN IF numericMatch # <<>>
                  THEN [ret |-> Num(ParseDigits(numericMatch, 0)), ex |-> FALSE]
                  ELSE [ret |-> documentId, ex |-> FALSE]

hasMapping(fwd, v4Id, contentType) == MapHas(fwd, MappingKey(v4Id, contentType))

\* an IdMapping as the object a caller receives
MappingObject(m) ==
  Obj(<<P("v4Id", m.v4Id), P("v5DocumentId", m.v5DocumentId),
        P("contentType", Str(m.contentType)), P("createdAt", Num(m.createdAt))>>)

\* this.mappings.get(key) || null
getMapping(fwd, v4Id, contentType) ==
  IF MapHas(fwd, MappingKey(v4Id, contentType))
  THEN MappingObject(MapGet(fwd, MappingKey(v4Id, contentType)))
  ELSE Null

getMappingsForContentType(fwd, contentType) ==
  LET results == SelectSeq(fwd, LAMBDA e : e.m.contentType = contentType)
  IN Arr([i \in 1..Len(results) |-> P("", MappingObject(results[i].m))])

\* the resource types of the records, each once, in the order of the Set
RECURSIVE TypesSeen(_, _)
TypesSeen(fwd, seen) ==
  IF fwd = <<>> THEN seen
  ELSE TypesSeen(Tail(fwd),
                 IF \E i \in 1..Len(seen) : seen[i] = Head(fwd).m.contentType THEN seen
                 ELSE Append(seen, Head(fwd).m.contentType))

\* createdAt is the reading of the clock; the oldest and the newest are null
\* when there is no record
getStatistics(fwd) ==
  LET stamps == {fwd[i].m.createdAt : i \in 1..Len(fwd)}
      types == TypesSeen(fwd, <<>>)
  IN Obj(<<P("totalMappings", Num(Len(fwd))),
           P("contentTypes", Arr([i \in 1..Len(types) |-> P("", Str(types[i]))])),
           P("oldestMapping", IF stamps = {} THEN Null
                              ELSE Num(CHOOSE t \in stamps : \A u \in stamps : t <= u)),
           P("newestMapping", IF stamps = {} THEN Null
                              ELSE Num(CHOOSE t \in stamps : \A u \in stamps : t >= u))>>)

\* the forward keys and the documentIds of the records of contentType, in Map order
RECURSIVE KeysToDelete(_, _)
KeysToDelete(fwd, contentType) ==
  IF fwd = <<>> THEN <<>>
  ELSE (IF Head(fwd).m.contentType = contentType THEN <<Head(fwd).k>> ELSE <<>>)
       \o KeysToDelete(Tail(fwd), contentType)

RECURSIVE DocumentIdsToDelete(_, _)
DocumentIdsToDelete(fwd, contentType) ==
  IF fwd = <<>> THEN <<>>
  ELSE (IF Head(fwd).m.contentType = contentType THEN <<Head(fwd).m.v5DocumentId>> ELSE <<>>)
       \o DocumentIdsToDelete(Tail(fwd), contentType)

\* [fwd, rev] afterwards
clearMappingsForContentType(fwd, rev, contentType) ==
  [fwd |-> MapDeleteAll(fwd, KeysToDelete(fwd, contentType)),
   rev |-> MapDeleteAll(rev, DocumentIdsToDelete(fwd, contentType))]

\* The JSON text of an export is modelled by the document it denotes:
\* [kind |-> "array", items |-> the entries {key, ...mapping}].  JSON keeps
\* numbers and strings apart, so v4Id comes back with its type.
ExportItem(e) == [isNull |-> FALSE, key |-> e.k, v4Id |-> e.m.v4Id,
                  v5DocumentId |-> e.m.v5DocumentId,
                  contentType |-> e.m.contentType, createdAt |-> e.m.createdAt]

exportMappings(fwd) == [kind |-> "array", items |-> [i \in 1..Len(fwd) |-> ExportItem(fwd[i])]]

\* the loop of importMappings over the parsed array; destructuring a null
\* entry throws and leaves what was loaded before it
RECURSIVE ImportLoop(_, _, _)
ImportLoop(items, fwd, rev) ==
  IF items = <<>> THEN [fwd |-> fwd, rev |-> rev, ex |-> FALSE]
  ELSE LET item == Head(items)
           mapping == [v4Id |-> item.v4Id, v5DocumentId |-> item.v5DocumentId,
                       contentType |-> item.contentType, createdAt |-> item.createdAt]
       IN IF item.isNull THEN [fwd |-> fwd, rev |-> rev, ex |-> TRUE]
          ELSE ImportLoop(Tail(items), MapSet(fwd, item.key, mapping),
                          MapSet(rev, item.v5DocumentId, mapping))

\* [fwd, rev, ex]: kind "invalid" is a text JSON.parse rejects, kind "value" a
\* text that parses to a value for-of cannot iterate (a number, an object, null)
importMappings(fwd, rev, jsonData) ==
  IF jsonData.kind = "invalid" THEN [fwd |-> fwd, rev |-> rev, ex |-> TRUE]
  ELSE IF jsonData.kind = "value" THEN [fwd |-> <<>>, rev |-> <<>>, ex |-> TRUE]
  ELSE ImportLoop(jsonData.items, <<>>, <<>>)

-----------------------------------------------------------------------------
(* The inputs of the registry's operations *)

ContentTypes == {<<"a">>, <<"a", "p", "i", ":", ":", "a", ".", "x">>, <<"a", ":", "b">>}

V4Ids == {Num(1), Str(<<"1">>), Str(<<"b", ":", "1">>)}

\* what the environment may give one call of generateDocumentId: the reading of
\* Date.now() and the characters of Math.random().toString(36).substr(2, 8).
\* Two calls may read the same pair or different ones.
Stamps == {[timestamp |-> 7, randomSuffix |-> <<"k">>],
           [timestamp |-> 8, randomSuffix |-> <<"q", "3">>]}

NullItem == [isNull |-> TRUE, key |-> <<>>, v4Id |-> Undef, v5DocumentId |-> Undef,
             contentType |-> <<>>, createdAt |-> 0]

\* entries of an imported array: null, and two entries that hold the same
\* documentId under different keys (what no export of a registry built by
\* mapV4ToV5 alone holds)
ImportEntry(k, v, d) ==
  [isNull |-> FALSE, key |-> MappingKey(k, <<"a">>), v4Id |-> v,
   v5DocumentId |-> Str(d), contentType |-> <<"a">>, createdAt |-> 1]

ImportItems ==
  {NullItem, ImportEntry(Num(1), Num(1), <<"d", "5">>), ImportEntry(Num(2), Num(2), <<"d", "5">>)}

SeqsUpTo(S, n) == UNION {[1..m -> S] : m \in 0..n}

ImportTexts ==
  {[kind |-> "invalid", items |-> <<>>], [kind |-> "value", items |-> <<>>]}
  \cup {[kind |-> "array", items |-> is] : is \in SeqsUpTo(ImportItems, MaxImportLen)}

\* the documentIds a caller may present: those on record and two that are not
KnownDocumentIds ==
  {mappings[i].m.v5DocumentId : i \in 1..Len(mappings)}
  \cup {Str(<<"z">>), Str(<<"x", "4", "2", "y", "7">>)}

\* The record of a call: op its name, id and ct its arguments (an id or a
\* payload, a contentType), ret the value returned, out a format name returned,
\* ex whether it threw, n the number of registry records before it; for a
\* transform also the formats, the options, for a round trip the value in
\* between, and calls, the number of top-level transform calls so far; for a
\* validation the expected format (src), the options (vopt) and the report
\* (rep, whose ex says that the call threw instead of returning it); for a
\* transformResponse the caller's objects as they were (h0) and
\* the value transform returned (mid).
NoReport == [isValid |-> TRUE, itemCount |-> 0, validItems |-> 0, invalidItems |-> 0,
             errors |-> <<>>, warnings |-> <<>>, ex |-> FALSE]

ValidationOptions(strict, allowMixed, checkRelations) ==
  [strict |-> strict, allowMixed |-> allowMixed, checkRelations |-> checkRelations]

NoCall == [op |-> "none", id |-> Undef, ct |-> <<>>, ret |-> Undef, out |-> "",
           ex |-> FALSE, n |-> 0, src |-> "", dst |-> "", preserve |-> TRUE,
           depth |-> 0, mid |-> Undef, calls |-> 0,
           vopt |-> ValidationOptions(FALSE, FALSE, TRUE), rep |-> NoReport, h0 |-> <<>>]

\* the options of a transform call
Options(contentType, preserve, depth) ==
  [contentType |-> contentType, preserveOriginalId |-> preserve, depth |-> depth]

\* The transformer's control.  mode "call": fn is entered with the argument d,
\* the formats src and dst and the options opt, its frame the sp-th of the
\* stack; mode "ret": the value d is returned to the innermost caller; mode
\* "throw": an exception propagates; mode "idle": no call is running.  draws
\* is what the coming calls of generateDocumentId will read.
Idle == [mode |-> "idle", fn |-> "", d |-> Undef, src |-> "", dst |-> "",
         opt |-> Options(<<>>, TRUE, 0), sp |-> 0, draws |-> <<>>]

-----------------------------------------------------------------------------
(* The registry's operations as actions *)

Init ==
  /\ mappings = <<>>
  /\ reverseMappings = <<>>
  /\ cache = {}
  /\ heap = <<>>
  /\ data = Undef
  /\ ctl = Idle
  /\ stack = <<>>
  /\ last = NoCall

MapV4ToV5(v4Id, contentType, stamp) ==
  LET r == mapV4ToV5(mappings, reverseMappings, v4Id, contentType,
                     stamp.timestamp, stamp.randomSuffix)
  IN /\ hasMapping(mappings, v4Id, contentType) \/ Len(mappings) < MaxRecords
     /\ mappings' = r.fwd
     /\ reverseMappings' = r.rev
     /\ last' = [NoCall EXCEPT !.op = "mapV4ToV5", !.id = v4Id, !.ct = contentType,
                               !.ret = r.ret, !.n = Len(mappings)]
     /\ UNCHANGED payload

\* a lookup that puts what it answers on record
MapV5ToV4_Recording(documentId, contentType) ==
  LET r == mapV5ToV4(mappings, reverseMappings, documentId, contentType)
      found == [v4Id |-> r.ret, v5DocumentId |-> documentId, contentType |-> contentType,
                createdAt |-> 0]
  IN /\ last' = [NoCall EXCEPT !.op = "mapV5ToV4", !.id = documentId, !.ct = contentType,
                               !.ret = r.ret, !.ex = r.ex, !.n = Len(mappings)]
     /\ mappings' = IF r.ex THEN mappings
                    ELSE MapSet(mappings, MappingKey(r.ret, contentType), found)
     /\ reverseMappings' = IF r.ex THEN reverseMappings
                           ELSE MapSet(reverseMappings, documentId, found)
     /\ UNCHANGED payload

MapV5ToV4(documentId, contentType) ==
  LET r == mapV5ToV4(mappings, reverseMappings, documentId, contentType)
  IN /\ last' = [NoCall EXCEPT !.op = "mapV5ToV4", !.id = documentId, !.ct = contentType,
                               !.ret = r.ret, !.ex = r.ex, !.n = Len(mappings)]
     /\ UNCHANGED <<mappings, reverseMappings>>
     /\ UNCHANGED payload

ClearMappings ==
  /\ mappings' = <<>>
  /\ reverseMappings' = <<>>
  /\ last' = [NoCall EXCEPT !.op = "clearMappings", !.n = Len(mappings)]
  /\ UNCHANGED payload

ClearMappingsForContentType(contentType) ==
  LET r == clearMappingsForContentType(mappings, reverseMappings, contentType)
  IN /\ mappings' = r.fwd
     /\ reverseMappings' = r.rev
     /\ last' = [NoCall EXCEPT !.op = "clearMappingsForContentType", !.ct = contentType,
                               !.n = Len(mappings)]
     /\ UNCHANGED payload

ImportMappings(jsonData) ==
  LET r == importMappings(mappings, reverseMappings, jsonData)
  IN /\ mappings' = r.fwd
     /\ reverseMappings' = r.rev
     /\ last' = [NoCall EXCEPT !.op = "importMappings", !.ex = r.ex, !.n = Len(mappings)]
     /\ UNCHANGED payload

Next ==
  \/ \E v \in V4Ids, T \in ContentTypes, s \in Stamps : MapV4ToV5(v, T, s)
  \/ \E d \in KnownDocumentIds, T \in ContentTypes : MapV5ToV4(d, T)
  \/ ClearMappings
  \/ \E T \in ContentTypes : ClearMappingsForContentType(T)
  \/ \E j \in ImportTexts \cup {exportMappings(mappings)} : ImportMappings(j)

Spec == Init /\ [][Next]_vars

\* the calls that only read the registry
HasMapping(v4Id, contentType) ==
  /\ last' = [NoCall EXCEPT !.op = "hasMapping", !.id = v4Id, !.ct = contentType,
                            !.ret = Bool(hasMapping(mappings, v4Id, contentType)),
                            !.n = Len(mappings)]
  /\ UNCHANGED <<mappings, reverseMappings>>
  /\ UNCHANGED payload

GetMapping(v4Id, contentType) ==
  /\ last' = [NoCall EXCEPT !.op = "getMapping", !.id = v4Id, !.ct = contentType,
                            !.ret = getMapping(mappings, v4Id, contentType),
                            !.n = Len(mappings)]
  /\ UNCHANGED <<mappings, reverseMappings>>
  /\ UNCHANGED payload

GetMappingsForContentType(contentType) ==
  /\ last' = [NoCall EXCEPT !.op = "getMappingsForContentType", !.ct = contentType,
                            !.ret = getMappingsForContentType(mappings, contentType),
                            !.n = Len(mappings)]
  /\ UNCHANGED <<mappings, reverseMappings>>
  /\ UNCHANGED payload

GetStatistics ==
  /\ last' = [NoCall EXCEPT !.op = "getStatistics", !.ret = getStatistics(mappings),
                            !.n = Len(mappings)]
  /\ UNCHANGED <<mappings, reverseMappings>>
  /\ UNCHANGED payload

\* the text returned is kept as the document it denotes
ExportMappings ==
  /\ last' = [NoCall EXCEPT !.op = "exportMappings", !.mid = exportMappings(mappings),
                            !.n = Len(mappings)]
  /\ UNCHANGED <<mappings, reverseMappings>>
  /\ UNCHANGED payload

-----------------------------------------------------------------------------
(* AdvancedDataTransformer and MediaMapper (data-transformer.ts,             *)
(* data-mapper.ts).  The functions that call nothing but the registry are   *)
(* computed on a heap h of the caller's objects and thread the state st      *)
(* they read and write:                                                      *)
(*   fwd, rev  the registry's two indices                                    *)
(*   draws     what the coming calls of generateDocumentId will read         *)
(*   ex        an exception is propagating                                   *)
(* Each returns [v, st]: its value and the state afterwards.                 *)

MAX_DEPTH == 10

CircularRef == Obj(<<P("__circular_ref", Bool(TRUE))>>)

UnknownType == <<"u", "n", "k", "n", "o", "w", "n">>
RelationType == <<"r", "e", "l", "a", "t", "i", "o", "n">>
MediaType == <<"m", "e", "d", "i", "a">>

Throw(st) == [v |-> Undef, st |-> [st EXCEPT !.ex = TRUE]]

\* IdMapper.mapV4ToV5 on the threaded state; a miss consumes a draw
CallMapV4ToV5(st, v4Id, contentType) ==
  LET d == Head(st.draws)
      r == mapV4ToV5(st.fwd, st.rev, v4Id, contentType, d.timestamp, d.randomSuffix)
  IN [v |-> r.ret,
      st |-> [st EXCEPT !.fwd = r.fwd, !.rev = r.rev,
                        !.draws = IF hasMapping(st.fwd, v4Id, contentType)
                                  THEN @ ELSE Tail(@) \o <<Head(@)>>]]

\* IdMapper.mapV5ToV4 on the threaded state
CallMapV5ToV4(st, documentId, contentType) ==
  LET r == mapV5ToV4(st.fwd, st.rev, documentId, contentType)
  IN [v |-> r.ret, st |-> [st EXCEPT !.ex = r.ex]]

isRelationData(h, d, format) ==
  IF ~(Truthy(d) /\ IsObject(d)) THEN FALSE
  ELSE IF format = "v4" THEN Prop(h, d, "data") # Undef
  ELSE IF format = "v5" THEN IsArray(h, d) \/ Prop(h, d, "documentId") # Undef
  ELSE FALSE

isMediaData(h, d) ==
  IF ~(Truthy(d) /\ IsObject(d)) THEN FALSE
  ELSE LET hasMediaFields ==
             \E field \in {"url", "mime", "hash", "ext", "size"} : Prop(h, d, field) # Undef
       IN hasMediaFields /\ (Prop(h, d, "id") # Undef \/ Prop(h, d, "documentId") # Undef)

transformV4MediaToV5(h, media, st) ==
  IF ~Truthy(media) \/ ~Truthy(Prop(h, media, "attributes")) THEN [v |-> media, st |-> st]
  ELSE LET id == Prop(h, media, "id")
           m == CallMapV4ToV5(st, id, MediaType)
       IN [v |-> Obj(Spread(<<P("documentId", m.v), P("id", id)>>,
                            Deref(h, Prop(h, media, "attributes")).f)),
           st |-> m.st]

transformV5MediaToV4(h, media, st) ==
  IF ~Truthy(media) \/ ~Truthy(Prop(h, media, "documentId")) THEN [v |-> media, st |-> st]
  ELSE LET id == Prop(h, media, "id")
           attributes == RestOf(Deref(h, media).f, {"documentId", "id"})
           m == IF Truthy(id) THEN [v |-> id, st |-> st]
                ELSE CallMapV5ToV4(st, Prop(h, media, "documentId"), MediaType)
       IN IF m.st.ex THEN Throw(st)
          ELSE [v |-> Obj(<<P("id", m.v), P("attributes", Obj(attributes))>>), st |-> m.st]

\* MediaMapper.transformMedia
transformMedia(h, media, sourceFormat, targetFormat, st) ==
  IF ~Truthy(media) \/ sourceFormat = targetFormat THEN [v |-> media, st |-> st]
  ELSE IF sourceFormat = "v4" /\ targetFormat = "v5" THEN transformV4MediaToV5(h, media, st)
  ELSE IF sourceFormat = "v5" /\ targetFormat = "v4" THEN transformV5MediaToV4(h, media, st)
  ELSE [v |-> media, st |-> st]

-----------------------------------------------------------------------------
(* transform applied to bounded payloads *)

MaxChain == 20     \* longest chain of nested items
MaxAttrs == 2      \* most attributes of a flat legacy item
StackLimit == 130  \* frames a call may nest before the engine's RangeError
MaxCalls == 1      \* top-level calls of the transformer or the validator in one behaviour

Formats == {"v4", "v5"}

Title == Str(<<"t">>)

\* item i is {id: i, attributes: {title, next: {data: item i+1}}}
RelationChain(n) ==
  [heap |-> [a \in 1..(3 * n - 1) |->
               LET i == (a + 2) \div 3
                   r == a - 3 * (i - 1)
               IN IF r = 1 THEN Obj(<<P("id", Num(i)), P("attributes", Ref(a + 1))>>)
                  ELSE IF r = 2
                  THEN Obj(<<P("title", Title)>>
                           \o (IF i < n THEN <<P("next", Ref(a + 1))>> ELSE <<>>))
                  ELSE Obj(<<P("data", Ref(a + 1))>>)],
   data |-> Ref(1)]

\* item i is {id: i, attributes: {title, child: item i+1}}
NestedChain(n) ==
  [heap |-> [a \in 1..(2 * n) |->
               LET i == (a + 1) \div 2
               IN IF a % 2 = 1 THEN Obj(<<P("id", Num(i)), P("attributes", Ref(a + 1))>>)
                  ELSE Obj(<<P("title", Title)>>
                           \o (IF i < n THEN <<P("child", Ref(a + 1))>> ELSE <<>>))],
   data |-> Ref(1)]

ChainLengths == {1, 2, MAX_DEPTH + 1, MAX_DEPTH + 2, MaxChain}

\* a = {id: 1, attributes: {self: {data: a}}}
SelfRelation ==
  [heap |-> <<Obj(<<P("id", Num(1)), P("attributes", Ref(2))>>),
              Obj(<<P("self", Ref(3))>>),
              Obj(<<P("data", Ref(1))>>)>>,
   data |-> Ref(1)]

\* a = {id: 1, attributes: {self: a}}
SelfNested ==
  [heap |-> <<Obj(<<P("id", Num(1)), P("attributes", Ref(2))>>),
              Obj(<<P("self", Ref(1))>>)>>,
   data |-> Ref(1)]

\* m = {documentId: 'd5', self: m}
SelfModern ==
  [heap |-> <<Obj(<<P("documentId", Str(<<"d", "5">>)), P("self", Ref(1))>>)>>,
   data |-> Ref(1)]

\* o = {id: 5, name: 't'}; x = {id: 1, attributes: {a: o, b: o}}
SharedSibling ==
  [heap |-> <<Obj(<<P("id", Num(1)), P("attributes", Ref(2))>>),
              Obj(<<P("a", Ref(3)), P("b", Ref(3))>>),
              Obj(<<P("id", Num(5)), P("name", Title)>>)>>,
   data |-> Ref(1)]

\* x = {id: 1, attributes: {cover: {id: 3, url: 't', attributes: {mime: 't'}}}}
WithMedia ==
  [heap |-> <<Obj(<<P("id", Num(1)), P("attributes", Ref(2))>>),
              Obj(<<P("cover", Ref(3))>>),
              Obj(<<P("id", Num(3)), P("url", Title), P("attributes", Ref(4))>>),
              Obj(<<P("mime", Title)>>)>>,
   data |-> Ref(1)]

\* m = {documentId: 'd5', title: 't', cover: {documentId: 'z', url: 't'}, tags: [1, 2]}
ModernItem ==
  [heap |-> <<Obj(<<P("documentId", Str(<<"d", "5">>)), P("title", Title),
                    P("cover", Ref(2)), P("tags", Ref(3))>>),
              Obj(<<P("documentId", Str(<<"z">>)), P("url", Title)>>),
              Arr(<<P("", Num(1)), P("", Num(2))>>)>>,
   data |-> Ref(1)]

\* [x, null, x] with x = {id: 1, attributes: {title: 't'}}
ItemList ==
  [heap |-> <<Arr(<<P("", Ref(2)), P("", Null), P("", Ref(2))>>),
              Obj(<<P("id", Num(1)), P("attributes", Ref(3))>>),
              Obj(<<P("title", Title)>>)>>,
   data |-> Ref(1)]

\* the attributes a flat legacy item is given: none of them a relation
AttributePool ==
  {P("title", Title), P("count", Num(0)), P("id", Num(2)),
   P("documentId", Str(<<"m">>)), P("tags", Ref(3))}

AttributeLists ==
  {fs \in SeqsUpTo(AttributePool, MaxAttrs) :
     \A i, j \in 1..Len(fs) : i # j => fs[i].k # fs[j].k}

\* x = {id, attributes: {...}}, the array [1, 2] at hand for its tags
FlatItem(id, fields) ==
  [heap |-> <<Obj(<<P("id", id), P("attributes", Ref(2))>>),
              Obj(fields),
              Arr(<<P("", Num(1)), P("", Num(2))>>)>>,
   data |-> Ref(1)]

FlatItems == {FlatItem(Num(1), fs) : fs \in AttributeLists}

Primitive(v) == [heap |-> <<>>, data |-> v]

\* m = {documentId, id, title: 't'}, the id left out when undefined
ModernFlat(documentId, id) ==
  [heap |-> <<Obj(<<P("documentId", documentId)>> \o OptField("id", id) \o <<P("title", Title)>>)>>,
   data |-> Ref(1)]

\* the documentId a string with or without digits, a number or the one of the
\* record of (a, 1); the id absent, zero or another number
ModernFlatItems ==
  {ModernFlat(d, i) : d \in {Str(<<"d", "5">>), Str(<<"m">>), Num(5),
                             generateDocumentId(Num(1), <<"a">>, 7, <<"k">>)},
                      i \in {Undef, Num(0), Num(4)}}

\* x = {id: 1, attributes: {author: {data: y}, tags: {data: [z]}, none: {data: null}}}
\* with y = {id: 2, attributes: {title: 't'}} and z = {id: 3, attributes: {title: 't'}}
WithRelations ==
  [heap |-> <<Obj(<<P("id", Num(1)), P("attributes", Ref(2))>>),
              Obj(<<P("author", Ref(3)), P("tags", Ref(5)), P("none", Ref(8))>>),
              Obj(<<P("data", Ref(4))>>),
              Obj(<<P("id", Num(2)), P("attributes", Ref(9))>>),
              Obj(<<P("data", Ref(6))>>),
              Arr(<<P("", Ref(7))>>),
              Obj(<<P("id", Num(3)), P("attributes", Ref(10))>>),
              Obj(<<P("data", Null)>>),
              Obj(<<P("title", Title)>>),
              Obj(<<P("title", Title)>>)>>,
   data |-> Ref(1)]

\* the registry after mapV4ToV5(1, 'a') and mapV4ToV5('x', 'media')
MediaSeed ==
  LET r == mapV4ToV5(<<>>, <<>>, Num(1), <<"a">>, 7, <<"k">>)
  IN mapV4ToV5(r.fwd, r.rev, Str(<<"x">>), MediaType, 7, <<"k">>)

\* m = {documentId: 'd5', cover: c}, c = {documentId, url: 't'} the modern form
\* of the media file 'x' of MediaSeed
ModernWithMedia ==
  [heap |-> <<Obj(<<P("documentId", Str(<<"d", "5">>)), P("cover", Ref(2))>>),
              Obj(<<P("documentId", MediaSeed.ret), P("url", Title)>>)>>,
   data |-> Ref(1)]

\* the pagination objects of a response: empty, partial, complete, with a
\* zero total and a field of its own
Paginations ==
  {Obj(<<>>), Obj(<<P("page", Num(2))>>),
   Obj(<<P("page", Num(2)), P("pageSize", Num(10)), P("pageCount", Num(3)), P("total", Num(9))>>),
   Obj(<<P("total", Num(0)), P("start", Num(5))>>)}

\* r = {data: x, meta: {pagination, requestId: 't'}, extra: 't'} with
\* x = {id: 1, attributes: {title: 't'}}
Envelope(pagination) ==
  [heap |-> <<Obj(<<P("data", Ref(2)), P("meta", Ref(4)), P("extra", Title)>>),
              Obj(<<P("id", Num(1)), P("attributes", Ref(3))>>),
              Obj(<<P("title", Title)>>),
              Obj(<<P("pagination", Ref(5)), P("requestId", Title)>>),
              pagination>>,
   data |-> Ref(1)]

\* r = {data: null, meta: {requestId: 't'}}
EmptyEnvelope ==
  [heap |-> <<Obj(<<P("data", Null), P("meta", Ref(2))>>), Obj(<<P("requestId", Title)>>)>>,
   data |-> Ref(1)]

\* r = {data: x} with x = {id: 1, attributes: {title: 't'}}
BareEnvelope ==
  [heap |-> <<Obj(<<P("data", Ref(2))>>),
              Obj(<<P("id", Num(1)), P("attributes", Ref(3))>>),
              Obj(<<P("title", Title)>>)>>,
   data |-> Ref(1)]

Envelopes == {Envelope(p) : p \in Paginations} \cup {EmptyEnvelope, BareEnvelope}

TransformInputs ==
  Envelopes \cup
  {RelationChain(n) : n \in ChainLengths} \cup {NestedChain(n) : n \in ChainLengths}
  \cup {SelfRelation, SelfNested, SelfModern, SharedSibling, WithMedia, ModernItem, ItemList,
        WithRelations, ModernWithMedia}
  \cup FlatItems
  \cup ModernFlatItems
  \cup {Primitive(Undef), Primitive(Null), Primitive(Num(5))}

\* the registry before the call: empty, or holding the records of an item and
\* of a media file
SeedRegistries ==
  {[fwd |-> <<>>, rev |-> <<>>], [fwd |-> MediaSeed.fwd, rev |-> MediaSeed.rev]}

\* what two calls of generateDocumentId in a row may read
DrawSeqs == {<<s1, s2>> : s1 \in Stamps, s2 \in Stamps}

-----------------------------------------------------------------------------
(* AdvancedDataTransformer.transform, one step at a time.  A function of     *)
(* the transformer is an action: the part of its body that runs when it is   *)
(* entered, up to the first call it makes of another function of the         *)
(* transformer.  What it does after that call returns is the action of the   *)
(* frame it left on the stack.                                               *)

Call(fn, d, src, dst, opt, sp, draws) ==
  [mode |-> "call", fn |-> fn, d |-> d, src |-> src, dst |-> dst, opt |-> opt,
   sp |-> sp, draws |-> draws]

Ret(v, draws) == [Idle EXCEPT !.mode = "ret", !.d = v, !.draws = draws]

Thrown(draws) == [Idle EXCEPT !.mode = "throw", !.draws = draws]

\* A waiting caller.  k "finally": transform, to release d if it is tracked;
\* k "forEach": an item transformer (fn) of the item d, its properties fields,
\* waiting for the i-th; k "map": an array's map, fields the results so far,
\* rest the elements to come, fn what each is given to, wrap whether the
\* array is returned as {data: array}; k "wrap": transformRelationData, to
\* return {data: value}; k "roundTrip": the caller of a round trip, to hand
\* the value back.  src, dst, opt and sp are those of the waiting function.
Frame(k, c) ==
  [k |-> k, d |-> c.d, tracked |-> FALSE, fields |-> <<>>, rest |-> <<>>, i |-> 0,
   fn |-> c.fn, src |-> c.src, dst |-> c.dst, opt |-> c.opt, sp |-> c.sp, wrap |-> FALSE]

\* the state the registry's callers thread
St == [fwd |-> mappings, rev |-> reverseMappings, draws |-> ctl.draws, ex |-> FALSE]

Entered(fn) == ctl.mode = "call" /\ ctl.fn = fn /\ ctl.sp <= StackLimit

Returned(k) == ctl.mode = "ret" /\ stack # <<>> /\ Head(stack).k = k

\* the options with their defaults applied: contentType || 'unknown'
DefaultOptions(options) ==
  [options EXCEPT !.contentType = IF @ = <<>> THEN UnknownType ELSE @]

\* the first property from the i-th on that is a truthy object; 0 if none
NextObject(fields, i) ==
  LET js == {j \in i..Len(fields) : Truthy(fields[j].v) /\ IsObject(fields[j].v)}
  IN IF js = {} THEN 0 ELSE CHOOSE j \in js : \A m \in js : j <= m

\* Object.keys(fields).forEach(key => ...) of an item transformer f, from the
\* i-th key on: the next truthy object is handed to transformNestedData at
\* depth + 1; when there is none the transformer returns
ForEachFrom(base, f, fields, i, draws) ==
  LET j == NextObject(fields, i)
  IN IF j # 0
     THEN /\ ctl' = Call("transformNestedData", fields[j].v, f.src, f.dst,
                         [f.opt EXCEPT !.depth = @ + 1], f.sp + 2, draws)
          /\ stack' = <<[f EXCEPT !.fields = fields, !.i = j]>> \o base
     ELSE IF f.fn = "transformV4ItemToV5"
     THEN /\ ctl' = Ret(Obj(fields), draws)
          /\ stack' = base
     ELSE \* { id: id || IdMapper.mapV5ToV4(documentId, contentType), attributes }
          LET id == Prop(heap, f.d, "id")
              m == IF Truthy(id) THEN [ret |-> id, ex |-> FALSE]
                   ELSE mapV5ToV4(mappings, reverseMappings, Prop(heap, f.d, "documentId"),
                                  f.opt.contentType)
          IN /\ ctl' = IF m.ex THEN Thrown(draws)
                       ELSE Ret(Obj(<<P("id", m.ret), P("attributes", Obj(fields))>>), draws)
             /\ stack' = base

\* items.map(item => fn(item)) of the frame f: the next element is handed to
\* fn; when there is none the array is returned
MapFrom(base, f, done, rest, draws) ==
  IF rest # <<>>
  THEN /\ ctl' = Call(f.fn, Head(rest), f.src, f.dst, f.opt, f.sp + 2, draws)
       /\ stack' = <<[f EXCEPT !.fields = done, !.rest = Tail(rest)]>> \o base
  ELSE /\ ctl' = Ret(IF f.wrap THEN Obj(<<P("data", Arr(done))>>) ELSE Arr(done), draws)
       /\ stack' = base

\* the cache when transform's finally block has run for d
finally_KeepEntry(c, d, tracked) == c

finally(c, d, tracked) == IF tracked THEN c \ {d} ELSE c

InitTransform ==
  /\ \E g \in SeedRegistries : mappings = g.fwd /\ reverseMappings = g.rev
  /\ cache = {}
  /\ \E x \in TransformInputs : heap = x.heap /\ data = x.data
  /\ ctl = Idle
  /\ stack = <<>>
  /\ last = NoCall

\* a caller calls transform(data, sourceFormat, targetFormat, options)
TransformCall(sourceFormat, targetFormat, contentType, preserve, depth, draws) ==
  /\ ctl.mode = "idle"
  /\ last.calls < MaxCalls
  /\ ctl' = Call("transform", data, sourceFormat, targetFormat,
                 Options(contentType, preserve, depth), 1, draws)
  /\ stack' = <<>>
  /\ last' = [NoCall EXCEPT !.op = "transform", !.id = data, !.ct = contentType,
                            !.n = Len(mappings), !.src = sourceFormat,
                            !.dst = targetFormat, !.preserve = preserve,
                            !.depth = depth, !.calls = last.calls + 1]
  /\ UNCHANGED <<mappings, reverseMappings, cache, heap, data>>

\* a caller calls transform(transform(data, 'v4', 'v5', options), 'v5', 'v4', options)
RoundTripCall(contentType, preserve, draws) ==
  /\ ctl.mode = "idle"
  /\ last.calls < MaxCalls
  /\ ctl' = Call("transform", data, "v4", "v5", Options(contentType, preserve, 0), 1, draws)
  /\ stack' = <<Frame("roundTrip", Call("transform", data, "v4", "v5",
                                        Options(contentType, preserve, 0), 1, draws))>>
  /\ last' = [NoCall EXCEPT !.op = "roundTrip", !.id = data, !.ct = contentType,
                            !.n = Len(mappings), !.src = "v4", !.dst = "v4",
                            !.preserve = preserve, !.calls = last.calls + 1]
  /\ UNCHANGED <<mappings, reverseMappings, cache, heap, data>>

\* transform answering equal formats with a copy of the object
transform_Copying ==
  /\ Entered("transform")
  /\ LET d == ctl.d
         opts == DefaultOptions(ctl.opt)
         tracked == Truthy(d) /\ IsObject(d)
     IN IF ctl.src = ctl.dst
        THEN ctl' = Ret(Deref(heap, d), ctl.draws) /\ UNCHANGED <<cache, stack>>
        ELSE IF opts.depth > MAX_DEPTH
        THEN ctl' = Ret(d, ctl.draws) /\ UNCHANGED <<cache, stack>>
        ELSE IF tracked /\ d \in cache
        THEN ctl' = Ret(CircularRef, ctl.draws) /\ UNCHANGED <<cache, stack>>
        ELSE /\ cache' = IF tracked THEN cache \cup {d} ELSE cache
             /\ stack' = <<[Frame("finally", ctl) EXCEPT !.tracked = tracked]>> \o stack
             /\ ctl' = IF ctl.src = "v4" /\ ctl.dst = "v5"
                       THEN [ctl EXCEPT !.fn = "transformV4ToV5", !.opt = opts, !.sp = @ + 1]
                       ELSE IF ctl.src = "v5" /\ ctl.dst = "v4"
                       THEN [ctl EXCEPT !.fn = "transformV5ToV4", !.opt = opts, !.sp = @ + 1]
                       ELSE Ret(d, ctl.draws)
  /\ UNCHANGED <<mappings, reverseMappings, heap, data, last>>

\* transform is entered: equal formats, the depth check, the cycle check, then
\* the object is tracked and the conversion called inside try
transform ==
  /\ Entered("transform")
  /\ LET d == ctl.d
         opts == DefaultOptions(ctl.opt)
         tracked == Truthy(d) /\ IsObject(d)
     IN IF ctl.src = ctl.dst
        THEN ctl' = Ret(d, ctl.draws) /\ UNCHANGED <<cache, stack>>
        ELSE IF opts.depth > MAX_DEPTH
        THEN ctl' = Ret(d, ctl.draws) /\ UNCHANGED <<cache, stack>>
        ELSE IF tracked /\ d \in cache
        THEN ctl' = Ret(CircularRef, ctl.draws) /\ UNCHANGED <<cache, stack>>
        ELSE /\ cache' = IF tracked THEN cache \cup {d} ELSE cache
             /\ stack' = <<[Frame("finally", ctl) EXCEPT !.tracked = tracked]>> \o stack
             /\ ctl' = IF ctl.src = "v4" /\ ctl.dst = "v5"
                       THEN [ctl EXCEPT !.fn = "transformV4ToV5", !.opt = opts, !.sp = @ + 1]
                       ELSE IF ctl.src = "v5" /\ ctl.dst = "v4"
                       THEN [ctl EXCEPT !.fn = "transformV5ToV4", !.opt = opts, !.sp = @ + 1]
                       ELSE Ret(d, ctl.draws)
  /\ UNCHANGED <<mappings, reverseMappings, heap, data, last>>

\* transform's finally block, the call returning or throwing
transform_finally ==
  /\ ctl.mode \in {"ret", "throw"}
  /\ stack # <<>> /\ Head(stack).k = "finally"
  /\ cache' = finally(cache, Head(stack).d, Head(stack).tracked)
  /\ stack' = Tail(stack)
  /\ UNCHANGED <<mappings, reverseMappings, heap, data, ctl, last>>

transformV4ToV5 ==
  /\ Entered("transformV4ToV5")
  /\ IF ~Truthy(ctl.d)
     THEN ctl' = Ret(ctl.d, ctl.draws) /\ UNCHANGED stack
     ELSE IF IsArray(heap, ctl.d)
     THEN MapFrom(stack, [Frame("map", ctl) EXCEPT !.fn = "transformV4ItemToV5"],
                  <<>>, Elems(heap, ctl.d), ctl.draws)
     ELSE ctl' = [ctl EXCEPT !.fn = "transformV4ItemToV5", !.sp = @ + 1] /\ UNCHANGED stack
  /\ UNCHANGED <<mappings, reverseMappings, cache, heap, data, last>>

transformV4ItemToV5 ==
  /\ Entered("transformV4ItemToV5")
  /\ LET item == ctl.d
         id == Prop(heap, item, "id")
         attributes == Prop(heap, item, "attributes")
         options == ctl.opt
     IN IF ~Truthy(item) \/ ~IsObject(item)
        THEN ctl' = Ret(item, ctl.draws) /\ UNCHANGED <<stack, mappings, reverseMappings>>
        ELSE IF Truthy(id) /\ Truthy(attributes)
        THEN LET m == CallMapV4ToV5(St, id, options.contentType)
                 spread == Spread(<<P("documentId", m.v)>>, Deref(heap, attributes).f)
                 result == IF options.preserveOriginalId
                           THEN SetField(spread, "id", id) ELSE spread
             IN /\ mappings' = m.st.fwd
                /\ reverseMappings' = m.st.rev
                /\ ForEachFrom(stack, [Frame("forEach", ctl) EXCEPT !.src = "v4", !.dst = "v5"],
                               result, 1, m.st.draws)
        ELSE IF Truthy(id) /\ ~Truthy(attributes)
        THEN LET m == CallMapV4ToV5(St, id, options.contentType)
                 rest == RestOf(Deref(heap, item).f, {"id"})
             IN /\ mappings' = m.st.fwd
                /\ reverseMappings' = m.st.rev
                /\ ctl' = Ret(Obj(Spread(<<P("documentId", m.v),
                                           P("id", IF options.preserveOriginalId
                                                   THEN id ELSE Undef)>>,
                                         rest)),
                              m.st.draws)
                /\ stack' = stack
        ELSE ctl' = Ret(item, ctl.draws) /\ UNCHANGED <<stack, mappings, reverseMappings>>
  /\ UNCHANGED <<cache, heap, data, last>>

transformV5ToV4 ==
  /\ Entered("transformV5ToV4")
  /\ IF ~Truthy(ctl.d)
     THEN ctl' = Ret(ctl.d, ctl.draws) /\ UNCHANGED stack
     ELSE IF IsArray(heap, ctl.d)
     THEN MapFrom(stack, [Frame("map", ctl) EXCEPT !.fn = "transformV5ItemToV4"],
                  <<>>, Elems(heap, ctl.d), ctl.draws)
     ELSE ctl' = [ctl EXCEPT !.fn = "transformV5ItemToV4", !.sp = @ + 1] /\ UNCHANGED stack
  /\ UNCHANGED <<mappings, reverseMappings, cache, heap, data, last>>

transformV5ItemToV4 ==
  /\ Entered("transformV5ItemToV4")
  /\ LET item == ctl.d
     IN IF ~Truthy(item) \/ ~IsObject(item)
        THEN ctl' = Ret(item, ctl.draws) /\ UNCHANGED <<stack, mappings, reverseMappings>>
        ELSE IF Truthy(Prop(heap, item, "documentId"))
        THEN /\ ForEachFrom(stack, [Frame("forEach", ctl) EXCEPT !.src = "v5", !.dst = "v4"],
                            RestOf(Deref(heap, item).f, {"documentId", "id"}), 1, ctl.draws)
             /\ UNCHANGED <<mappings, reverseMappings>>
        ELSE ctl' = Ret(item, ctl.draws) /\ UNCHANGED <<stack, mappings, reverseMappings>>
  /\ UNCHANGED <<cache, heap, data, last>>

\* the forEach callback of an item transformer, the nested value returned:
\* it is stored under its key and the loop goes on
forEach_Next ==
  /\ Returned("forEach")
  /\ LET f == Head(stack)
     IN ForEachFrom(Tail(stack), f, [f.fields EXCEPT ![f.i].v = ctl.d], f.i + 1, ctl.draws)
  /\ UNCHANGED <<mappings, reverseMappings, cache, heap, data, last>>

\* the map callback, the element's value returned
map_Next ==
  /\ Returned("map")
  /\ LET f == Head(stack)
     IN MapFrom(Tail(stack), f, Append(f.fields, P("", ctl.d)), f.rest, ctl.draws)
  /\ UNCHANGED <<mappings, reverseMappings, cache, heap, data, last>>

transformNestedData ==
  /\ Entered("transformNestedData")
  /\ LET d == ctl.d
     IN IF ~Truthy(d)
        THEN ctl' = Ret(d, ctl.draws) /\ UNCHANGED <<stack, mappings, reverseMappings>>
        ELSE IF isRelationData(heap, d, ctl.src)
        THEN /\ ctl' = [ctl EXCEPT !.fn = "transformRelationData", !.sp = @ + 1]
             /\ UNCHANGED <<stack, mappings, reverseMappings>>
        ELSE IF isMediaData(heap, d)
        THEN LET r == transformMedia(heap, d, ctl.src, ctl.dst, St)
             IN /\ ctl' = IF r.st.ex THEN Thrown(r.st.draws) ELSE Ret(r.v, r.st.draws)
                /\ mappings' = r.st.fwd
                /\ reverseMappings' = r.st.rev
                /\ UNCHANGED stack
        ELSE IF IsArray(heap, d)
        THEN /\ MapFrom(stack, Frame("map", ctl), <<>>, Elems(heap, d), ctl.draws)
             /\ UNCHANGED <<mappings, reverseMappings>>
        ELSE IF IsObject(d)
        THEN /\ ctl' = [ctl EXCEPT !.fn = "transform", !.sp = @ + 1]
             /\ UNCHANGED <<stack, mappings, reverseMappings>>
        ELSE ctl' = Ret(d, ctl.draws) /\ UNCHANGED <<stack, mappings, reverseMappings>>
  /\ UNCHANGED <<cache, heap, data, last>>

transformRelationData ==
  /\ Entered("transformRelationData")
  /\ LET relationData == ctl.d
         inner == Prop(heap, relationData, "data")
         asRelation == [ctl EXCEPT !.opt.contentType = RelationType]
     IN IF ~Truthy(relationData)
        THEN ctl' = Ret(relationData, ctl.draws) /\ UNCHANGED stack
        ELSE IF ctl.src = "v4" /\ ctl.dst = "v5" /\ Truthy(inner)
        THEN IF IsArray(heap, inner)
             THEN MapFrom(stack, [Frame("map", asRelation) EXCEPT !.fn = "transformV4ItemToV5"],
                          <<>>, Elems(heap, inner), ctl.draws)
             ELSE /\ ctl' = [asRelation EXCEPT !.fn = "transformV4ItemToV5", !.d = inner,
                                              !.sp = @ + 1]
                  /\ UNCHANGED stack
        ELSE IF ctl.src = "v5" /\ ctl.dst = "v4" /\ IsArray(heap, relationData)
        THEN MapFrom(stack, [Frame("map", asRelation) EXCEPT !.fn = "transformV5ItemToV4",
                                                             !.wrap = TRUE],
                     <<>>, Elems(heap, relationData), ctl.draws)
        ELSE IF ctl.src = "v5" /\ ctl.dst = "v4" /\ Truthy(Prop(heap, relationData, "documentId"))
        THEN /\ ctl' = [asRelation EXCEPT !.fn = "transformV5ItemToV4", !.sp = @ + 1]
             /\ stack' = <<Frame("wrap", ctl)>> \o stack
        ELSE ctl' = Ret(relationData, ctl.draws) /\ UNCHANGED stack
  /\ UNCHANGED <<mappings, reverseMappings, cache, heap, data, last>>

\* transformRelationData returns { data: value }
transformRelationData_Wrap ==
  /\ Returned("wrap")
  /\ ctl' = Ret(Obj(<<P("data", ctl.d)>>), ctl.draws)
  /\ stack' = Tail(stack)
  /\ UNCHANGED <<mappings, reverseMappings, cache, heap, data, last>>

\* transformPagination leaving the fields as they are
transformPagination_Keep(h, pagination) == pagination

transformPagination(h, pagination) ==
  IF ~Truthy(pagination) THEN pagination
  ELSE Obj(<<P("page", OrElse(Prop(h, pagination, "page"), Num(1))),
             P("pageSize", OrElse(Prop(h, pagination, "pageSize"), Num(25))),
             P("pageCount", OrElse(Prop(h, pagination, "pageCount"), Num(1))),
             P("total", OrElse(Prop(h, pagination, "total"), Num(0)))>>)

\* the end of transformResponse, transformed being the copy { ...response }
\* with its data set: transformed.meta is the response's own meta object, so
\* the pagination is replaced in that object
ReturnResponse(base, transformed, draws) ==
  LET meta == Prop(heap, Obj(transformed), "meta")
      pagination == Prop(heap, meta, "pagination")
  IN /\ heap' = IF Truthy(pagination) /\ meta.t = "ref"
                THEN [heap EXCEPT ![meta.n] =
                        Obj(SetField(@.f, "pagination", transformPagination(heap, pagination)))]
                ELSE heap
     /\ ctl' = Ret(Obj(transformed), draws)
     /\ stack' = base

\* a caller calls transformResponse(data, sourceFormat, targetFormat, options)
TransformResponse(sourceFormat, targetFormat, contentType, preserve, draws) ==
  /\ ctl.mode = "idle"
  /\ last.calls < MaxCalls
  /\ [heap |-> heap, data |-> data] \in Envelopes
  /\ last' = [NoCall EXCEPT !.op = "transformResponse", !.id = data, !.ct = contentType,
                            !.n = Len(mappings), !.src = sourceFormat,
                            !.dst = targetFormat, !.preserve = preserve,
                            !.calls = last.calls + 1, !.h0 = heap]
  /\ IF ~Truthy(data) \/ sourceFormat = targetFormat
     THEN ctl' = Ret(data, draws) /\ stack' = <<>> /\ UNCHANGED heap
     ELSE IF Truthy(Prop(heap, data, "data"))
     THEN /\ ctl' = Call("transform", Prop(heap, data, "data"), sourceFormat, targetFormat,
                         Options(contentType, preserve, 0), 2, draws)
          /\ stack' = <<[Frame("response", Call("transformResponse", data, sourceFormat,
                                                targetFormat, Options(contentType, preserve, 0),
                                                1, draws))
                          EXCEPT !.fields = Deref(heap, data).f]>>
          /\ UNCHANGED heap
     ELSE ReturnResponse(<<>>, Deref(heap, data).f, draws)
  /\ UNCHANGED <<mappings, reverseMappings, cache, data>>

\* transform has returned to transformResponse: transformed.data is set
transformResponse_Data ==
  /\ Returned("response")
  /\ ReturnResponse(Tail(stack), SetField(Head(stack).fields, "data", ctl.d), ctl.draws)
  /\ last' = [last EXCEPT !.mid = ctl.d]
  /\ UNCHANGED <<mappings, reverseMappings, cache, data>>

\* a function is entered with the stack full: the engine throws a RangeError
StackOverflow ==
  /\ ctl.mode = "call" /\ ctl.sp > StackLimit
  /\ ctl' = Thrown(ctl.draws)
  /\ UNCHANGED <<mappings, reverseMappings, cache, heap, data, stack, last>>

\* an exception passes a caller that does not catch it
Unwind ==
  /\ ctl.mode = "throw"
  /\ stack # <<>> /\ Head(stack).k # "finally"
  /\ stack' = Tail(stack)
  /\ UNCHANGED <<mappings, reverseMappings, cache, heap, data, ctl, last>>

\* the first call of a round trip returns: its value is converted back
RoundTrip_Back ==
  /\ Returned("roundTrip")
  /\ ctl' = Call("transform", ctl.d, "v5", "v4", Head(stack).opt, 1, ctl.draws)
  /\ stack' = Tail(stack)
  /\ last' = [last EXCEPT !.mid = ctl.d]
  /\ UNCHANGED <<mappings, reverseMappings, cache, heap, data>>

\* the top-level call ends: its caller has the value, or the exception
Complete ==
  /\ ctl.mode \in {"ret", "throw"}
  /\ stack = <<>>
  /\ ctl' = Idle
  /\ last' = [last EXCEPT !.ret = IF ctl.mode = "ret" THEN ctl.d ELSE Undef,
                          !.ex = (ctl.mode = "throw")]
  /\ UNCHANGED <<mappings, reverseMappings, cache, heap, data, stack>>

TransformTypes == {<<>>, <<"a">>}

NextTransform ==
  \/ \E F \in Formats, G \in Formats, T \in TransformTypes, p \in BOOLEAN,
        k \in {0, MAX_DEPTH + 1}, w \in DrawSeqs : TransformCall(F, G, T, p, k, w)
  \/ \E T \in TransformTypes, p \in BOOLEAN, w \in DrawSeqs : RoundTripCall(T, p, w)
  \/ \E F \in Formats, G \in Formats, T \in TransformTypes, p \in BOOLEAN, w \in DrawSeqs :
       TransformResponse(F, G, T, p, w)
  \/ transformResponse_Data
  \/ transform
  \/ transform_finally
  \/ transformV4ToV5
  \/ transformV4ItemToV5
  \/ transformV5ToV4
  \/ transformV5ItemToV4
  \/ forEach_Next
  \/ map_Next
  \/ transformNestedData
  \/ transformRelationData
  \/ transformRelationData_Wrap
  \/ StackOverflow
  \/ Unwind
  \/ RoundTrip_Back
  \/ Complete

SpecTransform == InitTransform /\ [][NextTransform]_vars

-----------------------------------------------------------------------------
(* A caller's session: calls of the registry, then a call of the transformer *)

SessionIds == {Num(1), Num(2)}

\* payloads that take a transform through each of its functions
SessionInputs ==
  {SelfRelation, ItemList, WithRelations, WithMedia, ModernItem, ModernWithMedia, BareEnvelope,
   ModernFlat(generateDocumentId(Num(1), <<"a">>, 7, <<"k">>), Undef),
   FlatItem(Num(1), <<P("title", Title)>>),
   FlatItem(Num(1), <<P("documentId", Str(<<"m">>))>>),
   FlatItem(Num(1), <<P("title", Title), P("id", Num(2))>>)}

InitSession ==
  /\ mappings = <<>>
  /\ reverseMappings = <<>>
  /\ cache = {}
  /\ \E x \in SessionInputs : heap = x.heap /\ data = x.data
  /\ ctl = Idle
  /\ stack = <<>>
  /\ last = NoCall

\* a call of the registry made before the transformer is called
RegistryCall ==
  /\ ctl.mode = "idle"
  /\ last.calls = 0
  /\ \/ \E v \in SessionIds, s \in Stamps : MapV4ToV5(v, <<"a">>, s)
     \/ \E d \in KnownDocumentIds, T \in TransformTypes : MapV5ToV4(d, T)
     \/ \E v \in SessionIds : HasMapping(v, <<"a">>)
     \/ \E v \in SessionIds : GetMapping(v, <<"a">>)
     \/ \E T \in TransformTypes : GetMappingsForContentType(T)
     \/ GetStatistics
     \/ ExportMappings
     \/ ClearMappings
     \/ ClearMappingsForContentType(<<"a">>)
     \/ ImportMappings(exportMappings(mappings))

\* between the two conversions of a round trip another caller has
\* mapV4ToV5 add a record, by a call of its own or through a transform to the
\* modern format.  (Calls of mapV5ToV4 and transforms to the legacy format
\* in that place leave the registry as it is.)
Interleaved(v4Id, contentType, stamp) ==
  /\ Returned("roundTrip")
  /\ ~hasMapping(mappings, v4Id, contentType)
  /\ Len(mappings) <= MaxRecords
  /\ LET r == mapV4ToV5(mappings, reverseMappings, v4Id, contentType,
                        stamp.timestamp, stamp.randomSuffix)
     IN mappings' = r.fwd /\ reverseMappings' = r.rev
  /\ UNCHANGED <<cache, heap, data, ctl, stack, last>>

\* the pairs other callers map between the two conversions: the item's id
\* under a type that is cleaned to the same name, an id and a type that give
\* the key of another pair, and another id of the same type
InterleavedPairs ==
  {<<Num(1), <<"a", "p", "i", ":", ":", "a", ".", "x">>>>,
   <<Str(<<"b", ":", "1">>), <<"a">>>>,
   <<Num(2), <<"a">>>>}

NextSession ==
  \/ RegistryCall
  \/ \E q \in InterleavedPairs, s \in Stamps : Interleaved(q[1], q[2], s)
  \/ NextTransform

SpecSession == InitSession /\ [][NextSession]_vars

\* the step is a call that reads the registry, a mapV4ToV5 that finds its
\* record, or a step of a transform from the modern to the legacy format or
\* between equal formats
ReadOnlyStep ==
  \/ last'.op \in {"mapV5ToV4", "hasMapping", "getMapping", "getMappingsForContentType",
                   "getStatistics", "exportMappings"}
  \/ last'.op = "mapV4ToV5" /\ hasMapping(mappings, last'.id, last'.ct)
  \/ /\ last'.op \in {"transform", "transformResponse"}
     /\ last'.src = last'.dst \/ (last'.src = "v5" /\ last'.dst = "v4")

\* C25: mapV5ToV4, hasMapping, getMapping, getMappingsForContentType,
\* getStatistics, exportMappings, a mapV4ToV5 call that finds its record, and
\* every step of a transform or a transformResponse from v5 to v4 or between
\* equal formats leave the forward and the reverse index as they were.
C25_RegistryFrame ==
  [][ReadOnlyStep => (mappings' = mappings /\ reverseMappings' = reverseMappings)]_vars

\* a modern item with a nested item was converted to the legacy format while
\* the registry held a record, and the nested item was converted with it
C25_Witness ==
  /\ ctl.mode = "idle" /\ last.op = "transform" /\ ~last.ex
  /\ last.src = "v5" /\ last.dst = "v4"
  /\ [heap |-> heap, data |-> data] = ModernWithMedia
  /\ Len(mappings) > 0
  /\ Prop(heap, Prop(heap, Prop(heap, last.ret, "attributes"), "cover"), "data") # Undef

\* a top-level call named op has ended
Ended(op) == ctl.mode = "idle" /\ last.op = op

-----------------------------------------------------------------------------
(* Properties of transform *)

\* the payload the caller holds, with the objects it is made of
Input == [heap |-> heap, data |-> data]

\* a call transform(data, sourceFormat, targetFormat, {depth: 0}) has ended
Converted(sourceFormat, targetFormat) ==
  /\ Ended("transform")
  /\ last.src = sourceFormat /\ last.dst = targetFormat /\ last.depth = 0

\* v[key][key]...[key], n times
RECURSIVE Descend(_, _, _, _)
Descend(h, v, key, n) == IF n = 0 THEN v ELSE Descend(h, Prop(h, v, key), key, n - 1)

\* a and b are the same primitive, or objects with the same keys and the same
\* values under them, or arrays of the same values in order; for values
\* nested no deeper than fuel
RECURSIVE SameValue(_, _, _, _)
SameValue(h, a, b, fuel) ==
  LET x == Deref(h, a)
      y == Deref(h, b)
  IN IF x.t # y.t THEN FALSE
     ELSE IF x.t = "object"
     THEN /\ fuel > 0
          /\ {x.f[i].k : i \in 1..Len(x.f)} = {y.f[i].k : i \in 1..Len(y.f)}
          /\ \A i \in 1..Len(x.f) : SameValue(h, x.f[i].v, Prop(h, y, x.f[i].k), fuel - 1)
     ELSE IF x.t = "array"
     THEN /\ fuel > 0
          /\ Len(x.f) = Len(y.f)
          /\ \A i \in 1..Len(x.f) : SameValue(h, x.f[i].v, y.f[i].v, fuel - 1)
     ELSE x = y

\* C4: a legacy item whose relation field wraps the item itself is converted
\* to modern without an exception and with the marker in place of that field;
\* so is, to legacy, a modern item with a field that is the item itself.
C4_CycleSafety ==
  /\ (Converted("v4", "v5") /\ Input = SelfRelation)
       => (~last.ex /\ Prop(heap, last.ret, "self") = CircularRef)
  /\ (Converted("v5", "v4") /\ Input = SelfModern)
       => (~last.ex /\ Prop(heap, Prop(heap, last.ret, "attributes"), "self") = CircularRef)

\* C5: converting a chain of relations longer than MAX_DEPTH + 1 items ends
\* without an exception, and the item nested MAX_DEPTH + 1 relations deep is
\* in the result as it was: the caller's object, not a conversion of it.
C5_DepthSafety ==
  \A n \in ChainLengths :
    (n > MAX_DEPTH + 1 /\ Converted("v4", "v5") /\ Input = RelationChain(n))
      => (~last.ex /\ Descend(heap, last.ret, "next", MAX_DEPTH + 1).t = "ref")

\* the objects whose transform call is on the stack
InProgress ==
  {stack[i].d : i \in {j \in 1..Len(stack) : stack[j].k = "finally" /\ stack[j].tracked}}

\* C6: the cache holds exactly the objects whose transform call is on the
\* stack, so it is empty when no call is running, however the last one ended;
\* and an object that is the value of two fields of an item is converted
\* under both, the marker under neither.
C6_CacheReleased ==
  /\ cache = InProgress
  /\ ctl.mode = "idle" => cache = {}
  /\ (Converted("v4", "v5") /\ Input = SharedSibling)
       => /\ ~last.ex
          /\ \A key \in {"a", "b"} :
               /\ Prop(heap, last.ret, key) # CircularRef
               /\ Truthy(Prop(heap, Prop(heap, last.ret, key), "documentId"))

\* the shared object has been converted under both fields and the cache is empty
C6_Witness ==
  /\ Converted("v4", "v5") /\ Input = SharedSibling
  /\ \A key \in {"a", "b"} : Truthy(Prop(heap, Prop(heap, last.ret, key), "documentId"))
  /\ cache = {}

\* C7: transform(x, F, F) returns x itself, whatever the options: the same
\* reference, no exception, no record added to the registry.
C7_IdentityShortCircuit ==
  (Ended("transform") /\ last.src = last.dst)
    => (last.ret = last.id /\ ~last.ex /\ Len(mappings) = last.n)

\* an object was handed to transform with equal formats, beyond the depth limit
C7_Witness ==
  /\ Ended("transform") /\ last.src = last.dst
  /\ last.id.t = "ref" /\ last.ret = last.id
  /\ last.depth > MAX_DEPTH

\* C8: a flat legacy item converted to modern and back, with the same
\* contentType, has the id it had and attributes with the keys and values
\* they had.
C8_RoundTrip ==
  (Ended("roundTrip") /\ Input \in FlatItems)
    => /\ ~last.ex
       /\ SameValue(heap, Prop(heap, last.ret, "id"), Prop(heap, data, "id"), 2)
       /\ SameValue(heap, Prop(heap, last.ret, "attributes"), Prop(heap, data, "attributes"), 2)

\* the keys of an object
Keys(h, v) == {Deref(h, v).f[i].k : i \in 1..Len(Deref(h, v).f)}

\* options.contentType || 'unknown'
TypeOf(contentType) == IF contentType = <<>> THEN UnknownType ELSE contentType

\* C14: a legacy item with id and attributes, whatever keys the attributes
\* hold, is converted to an object whose documentId is the registry's for
\* (contentType, id), which has every attribute key, and whose id is the
\* item's when preserveOriginalId is set and is absent when it is not.
C14_LegacyToModern ==
  (Converted("v4", "v5") /\ Input \in FlatItems)
    => /\ ~last.ex
       /\ hasMapping(mappings, Prop(heap, data, "id"), TypeOf(last.ct))
       /\ Prop(heap, last.ret, "documentId")
            = MapGet(mappings, MappingKey(Prop(heap, data, "id"), TypeOf(last.ct))).v5DocumentId
       /\ Keys(heap, Prop(heap, data, "attributes")) \subseteq Keys(heap, last.ret)
       /\ Prop(heap, last.ret, "id") = IF last.preserve THEN Prop(heap, data, "id") ELSE Undef

\* C15: a modern item with a documentId is converted to {id, attributes}:
\* attributes holds the item's fields other than documentId and id, and id is
\* the item's id when it has one, of any value, and else what mapV5ToV4 gives
\* for (documentId, contentType).
C15_ModernToLegacy ==
  (Converted("v5", "v4") /\ Input \in ModernFlatItems)
    => /\ ~last.ex
       /\ Keys(heap, last.ret) = {"id", "attributes"}
       /\ Keys(heap, Prop(heap, last.ret, "attributes")) = Keys(heap, data) \ {"documentId", "id"}
       /\ \A key \in Keys(heap, data) \ {"documentId", "id"} :
            Prop(heap, Prop(heap, last.ret, "attributes"), key) = Prop(heap, data, key)
       /\ Prop(heap, last.ret, "id")
            = IF Prop(heap, data, "id") # Undef THEN Prop(heap, data, "id")
              ELSE mapV5ToV4(mappings, reverseMappings, Prop(heap, data, "documentId"),
                             TypeOf(last.ct)).ret

\* C16: when a legacy item is converted, each of its fields {data: X} becomes
\* the converted X: a modern item for an item, an array of modern items for
\* an array, null for null; no field of the result is a {data: ...} wrapper.
C16_RelationUnwrapped ==
  (Converted("v4", "v5") /\ Input = WithRelations)
    => /\ ~last.ex
       /\ Truthy(Prop(heap, Prop(heap, last.ret, "author"), "documentId"))
       /\ IsArray(heap, Prop(heap, last.ret, "tags"))
       /\ \A i \in 1..Len(Elems(heap, Prop(heap, last.ret, "tags"))) :
            Truthy(Prop(heap, Elems(heap, Prop(heap, last.ret, "tags"))[i], "documentId"))
       /\ Prop(heap, last.ret, "none") = Null
       /\ \A key \in Keys(heap, last.ret) :
            "data" \notin Keys(heap, Prop(heap, last.ret, key))

\* C17: the identifier of a media object nested in an item is translated
\* under the type 'media' in both directions: the legacy file 3 gets the
\* documentId of the record of (media, 3), and the modern file whose
\* documentId the registry holds for (media, 'x') gets the id 'x'.
C17_MediaScoping ==
  /\ (Converted("v4", "v5") /\ Input = WithMedia)
       => /\ ~last.ex
          /\ hasMapping(mappings, Num(3), MediaType)
          /\ Prop(heap, Prop(heap, last.ret, "cover"), "documentId")
               = MapGet(mappings, MappingKey(Num(3), MediaType)).v5DocumentId
          /\ \A i \in 1..Len(mappings) :
               mappings[i].m.v4Id = Num(3) => mappings[i].m.contentType = MediaType
  /\ (Converted("v5", "v4") /\ Input = ModernWithMedia /\ mappings = MediaSeed.fwd)
       => /\ ~last.ex
          /\ Prop(heap, Prop(heap, Prop(heap, last.ret, "attributes"), "cover"), "id")
               = Str(<<"x">>)

\* a call transformResponse(data, F, G, options) with F # G has returned
Responded == Ended("transformResponse") /\ last.src # last.dst /\ ~last.ex

\* the pagination of the response handed in, and of the one returned
PaginationBefore == Prop(last.h0, Prop(last.h0, data, "meta"), "pagination")
PaginationAfter == Prop(heap, Prop(heap, last.ret, "meta"), "pagination")

\* C18: transformResponse with different formats returns an envelope with the
\* keys of the input; its data is what transform returned for the input's
\* data (for the legacy item of the envelopes converted to modern: the
\* registry's documentId and the title; converted to legacy: the item itself);
\* its meta.pagination, when the input has one, has page, pageSize, pageCount
\* and total, a missing one being 1, 25, 1 and 0; the other keys of meta and
\* of the envelope have the values they had.
C18_ResponseFrame ==
  Responded
    => /\ Keys(heap, last.ret) = Keys(last.h0, data)
       /\ \A key \in Keys(last.h0, data) \ {"data", "meta"} :
            Prop(heap, last.ret, key) = Prop(last.h0, data, key)
       /\ IF Truthy(Prop(last.h0, data, "data"))
          THEN /\ Prop(heap, last.ret, "data") = last.mid
               /\ IF last.src = "v4"
                  THEN /\ hasMapping(mappings, Num(1), TypeOf(last.ct))
                       /\ Prop(heap, last.mid, "documentId")
                            = MapGet(mappings, MappingKey(Num(1), TypeOf(last.ct))).v5DocumentId
                       /\ Prop(heap, last.mid, "title") = Title
                  ELSE last.mid = Prop(last.h0, data, "data")
          ELSE Prop(heap, last.ret, "data") = Prop(last.h0, data, "data")
       /\ Prop(heap, last.ret, "meta") = Prop(last.h0, data, "meta")
       /\ Keys(heap, Prop(heap, last.ret, "meta")) = Keys(last.h0, Prop(last.h0, data, "meta"))
       /\ \A key \in Keys(last.h0, Prop(last.h0, data, "meta")) \ {"pagination"} :
            Prop(heap, Prop(heap, last.ret, "meta"), key)
              = Prop(last.h0, Prop(last.h0, data, "meta"), key)
       /\ Truthy(PaginationBefore)
            => /\ Keys(heap, PaginationAfter) = {"page", "pageSize", "pageCount", "total"}
               /\ \A key \in {"page", "pageSize", "pageCount", "total"} :
                    PaginationAfter.t = "object" /\ Prop(heap, PaginationAfter, key).t = "number"
               /\ Prop(last.h0, PaginationBefore, "page") = Undef
                    => Prop(heap, PaginationAfter, "page") = Num(1)
               /\ Prop(last.h0, PaginationBefore, "pageSize") = Undef
                    => Prop(heap, PaginationAfter, "pageSize") = Num(25)
               /\ Prop(last.h0, PaginationBefore, "pageCount") = Undef
                    => Prop(heap, PaginationAfter, "pageCount") = Num(1)
               /\ Prop(last.h0, PaginationBefore, "total") = Undef
                    => Prop(heap, PaginationAfter, "total") = Num(0)

\* a response with the pagination {page: 2} has been converted to modern: its
\* data has a documentId, its pagination the page 2 and the pageSize 25, its
\* meta the requestId it had
C18_Witness ==
  /\ Responded
  /\ last.src = "v4"
  /\ Deref(last.h0, PaginationBefore) = Obj(<<P("page", Num(2))>>)
  /\ Truthy(Prop(heap, Prop(heap, last.ret, "data"), "documentId"))
  /\ Prop(heap, PaginationAfter, "page") = Num(2)
  /\ Prop(heap, PaginationAfter, "pageSize") = Num(25)
  /\ Prop(heap, Prop(heap, last.ret, "meta"), "requestId") = Title

\* the payload is a legacy item: an id and an attributes object
LegacyItem ==
  /\ IsObject(data)
  /\ Truthy(Prop(heap, data, "id"))
  /\ IsObject(Prop(heap, data, "attributes"))

\* C30: with preserveOriginalId false, a legacy item converted to the modern
\* format and later back to the legacy format with the same contentType has
\* the id it had, whatever records other callers of mapV4ToV5 added before
\* and between the two conversions.
C30_IdThroughRegistry ==
  (Ended("roundTrip") /\ ~last.preserve /\ LegacyItem)
    => (~last.ex /\ Prop(heap, last.ret, "id") = Prop(heap, data, "id"))

\* a among the objects h and b among the objects g are the same primitive,
\* or objects with the same keys and the same values under them, or arrays
\* of the same values in order; for values nested no deeper than fuel
RECURSIVE SameAcross(_, _, _, _, _)
SameAcross(h, a, g, b, fuel) ==
  IF h = g /\ a = b THEN TRUE
  ELSE IF Deref(h, a).t # Deref(g, b).t THEN FALSE
  ELSE IF Deref(h, a).t = "object"
  THEN /\ fuel > 0
       /\ Keys(h, a) = Keys(g, b)
       /\ \A key \in Keys(h, a) : SameAcross(h, Prop(h, a, key), g, Prop(g, b, key), fuel - 1)
  ELSE IF Deref(h, a).t = "array"
  THEN /\ fuel > 0
       /\ Len(Elems(h, a)) = Len(Elems(g, b))
       /\ \A i \in 1..Len(Elems(h, a)) :
            SameAcross(h, Elems(h, a)[i], g, Elems(g, b)[i], fuel - 1)
  ELSE Deref(h, a) = Deref(g, b)

\* C29: no step of transform or of transformResponse changes the caller's
\* objects: the payload and every object nested in it, the meta of an
\* envelope and its pagination included, keep their keys and their values.
C29_InputUntouched ==
  [][\A a \in 1..Len(heap) : SameAcross(heap, Ref(a), heap', Ref(a), 3)]_vars

\* the legacy id of (documentId, contentType) as the registry's contract
\* gives it: the v4Id on record, else the first digits of the documentId,
\* else the documentId
LegacyIdOf(documentId, contentType) ==
  LET hits == {i \in 1..Len(mappings) : /\ mappings[i].m.v5DocumentId = documentId
                                        /\ mappings[i].m.contentType = contentType}
  IN IF hits # {} THEN mappings[CHOOSE i \in hits : TRUE].m.v4Id
     ELSE IF documentId.t = "number" THEN documentId
     ELSE IF FirstDigitRun(documentId.s) # <<>>
     THEN Num(ParseDigits(FirstDigitRun(documentId.s), 0))
     ELSE documentId

\* C19: mapV5ToV4 never throws and returns the legacy id of its contract for
\* whatever documentId the transformer hands it: converting to legacy a
\* modern item with a documentId and no id of its own ends without an
\* exception, with that legacy id as the item's id.
C19_ToLegacyIdTotal ==
  (Converted("v5", "v4") /\ Input \in ModernFlatItems /\ ~Truthy(Prop(heap, data, "id")))
    => /\ ~last.ex
       /\ Prop(heap, last.ret, "id")
            = LegacyIdOf(Prop(heap, data, "documentId"), TypeOf(last.ct))

-----------------------------------------------------------------------------
(* DataValidator.detectFormat (data-validator.ts) *)

\* the loop over the items: the counters [v4Count, v5Count, totalCount]
RECURSIVE CountFormats(_, _, _)
CountFormats(h, items, c) ==
  IF items = <<>> THEN c
  ELSE LET item == Head(items)
           c1 == IF Truthy(item) /\ IsObject(item)
                 THEN IF Prop(h, item, "id") # Undef /\ Prop(h, item, "attributes") # Undef
                      THEN [c EXCEPT !.totalCount = @ + 1, !.v4Count = @ + 1]
                      ELSE IF Prop(h, item, "documentId") # Undef
                      THEN [c EXCEPT !.totalCount = @ + 1, !.v5Count = @ + 1]
                      ELSE [c EXCEPT !.totalCount = @ + 1]
                 ELSE c
       IN CountFormats(h, Tail(items), c1)

\* detectFormat with the two tests of an item made independent (if ... if)
detectFormat_BothTests(h, d) ==
  IF ~Truthy(d) THEN "unknown"
  ELSE LET items == IF IsArray(h, d) THEN Elems(h, d) ELSE <<d>>
           objs == {i \in 1..Len(items) : Truthy(items[i]) /\ IsObject(items[i])}
           v4 == {i \in objs : Prop(h, items[i], "id") # Undef
                               /\ Prop(h, items[i], "attributes") # Undef}
           v5 == {i \in objs : Prop(h, items[i], "documentId") # Undef}
       IN IF objs = {} THEN "unknown"
          ELSE IF v4 # {} /\ v5 = {} THEN "v4"
          ELSE IF v5 # {} /\ v4 = {} THEN "v5"
          ELSE IF v4 # {} /\ v5 # {} THEN "mixed"
          ELSE "unknown"

\* detectFormat deciding by the more frequent kind
detectFormat_Majority(h, d) ==
  IF ~Truthy(d) THEN "unknown"
  ELSE LET items == IF IsArray(h, d) THEN Elems(h, d) ELSE <<d>>
           c == CountFormats(h, items, [v4Count |-> 0, v5Count |-> 0, totalCount |-> 0])
       IN IF c.totalCount = 0 THEN "unknown"
          ELSE IF c.v4Count > 0 /\ c.v4Count >= c.v5Count THEN "v4"
          ELSE IF c.v5Count > 0 THEN "v5"
          ELSE "unknown"

detectFormat(h, d) ==
  IF ~Truthy(d) THEN "unknown"
  ELSE LET items == IF IsArray(h, d) THEN Elems(h, d) ELSE <<d>>
           c == CountFormats(h, items, [v4Count |-> 0, v5Count |-> 0, totalCount |-> 0])
       IN IF c.totalCount = 0 THEN "unknown"
          ELSE IF c.v4Count > 0 /\ c.v5Count = 0 THEN "v4"
          ELSE IF c.v5Count > 0 /\ c.v4Count = 0 THEN "v5"
          ELSE IF c.v4Count > 0 /\ c.v5Count > 0 THEN "mixed"
          ELSE "unknown"

-----------------------------------------------------------------------------
(* detectFormat applied to bounded payloads *)

MaxItems == 3   \* longest array handed to detectFormat

\* an item: each of id, attributes and documentId present or not (attributes
\* also null), and two values that are no objects
DetectItems ==
  {Obj(OptField("id", i) \o OptField("attributes", a) \o OptField("documentId", d)) :
     i \in {Undef, Num(1)}, a \in {Undef, Null, Obj(<<>>)}, d \in {Undef, Str(<<"d">>)}}
  \cup {Null, Num(5)}

ArrayOf(items) == Arr([i \in 1..Len(items) |-> P("", items[i])])

DetectInputs ==
  {Undef, Null} \cup DetectItems \cup {ArrayOf(is) : is \in SeqsUpTo(DetectItems, MaxItems)}

InitDetect ==
  /\ mappings = <<>>
  /\ reverseMappings = <<>>
  /\ cache = {}
  /\ heap = <<>>
  /\ data \in DetectInputs
  /\ ctl = Idle
  /\ stack = <<>>
  /\ last = NoCall

DetectFormat ==
  /\ last' = [NoCall EXCEPT !.op = "detectFormat", !.id = data, !.out = detectFormat(heap, data)]
  /\ UNCHANGED <<mappings, reverseMappings, cache, heap, data, ctl, stack>>

NextDetect == DetectFormat

SpecDetect == InitDetect /\ [][NextDetect]_vars

\* the items of a payload as detectFormat sees them
ItemsOf(h, d) == IF IsArray(h, d) THEN Elems(h, d) ELSE <<d>>

HasProp(h, x, key) == Truthy(x) /\ IsObject(x) /\ Prop(h, x, key) # Undef

LegacyLike(h, x) == HasProp(h, x, "id") /\ HasProp(h, x, "attributes")

\* C9 as claimed: an item is legacy-like iff it has id and attributes,
\* modern-like iff it has documentId, independently; the result is v4 when
\* only legacy-like items occur, v5 when only modern-like ones occur, mixed
\* when both kinds occur, unknown otherwise.
C9_IndependentRules ==
  last.op = "detectFormat" =>
    LET items == ItemsOf(heap, data)
        L == Truthy(data) /\ \E i \in 1..Len(items) : LegacyLike(heap, items[i])
        M == Truthy(data) /\ \E i \in 1..Len(items) : HasProp(heap, items[i], "documentId")
    IN last.out = IF L /\ ~M THEN "v4" ELSE IF M /\ ~L THEN "v5"
                  ELSE IF L /\ M THEN "mixed" ELSE "unknown"

\* C9 as amended: an item is modern-like iff it has documentId and is not
\* legacy-like (an item with id, attributes and documentId counts as legacy
\* only); the aggregation is as claimed.
C9_ExclusiveRules ==
  last.op = "detectFormat" =>
    LET items == ItemsOf(heap, data)
        L == Truthy(data) /\ \E i \in 1..Len(items) : LegacyLike(heap, items[i])
        M == Truthy(data) /\ \E i \in 1..Len(items) :
               HasProp(heap, items[i], "documentId") /\ ~LegacyLike(heap, items[i])
    IN last.out = IF L /\ ~M THEN "v4" ELSE IF M /\ ~L THEN "v5"
                  ELSE IF L /\ M THEN "mixed" ELSE "unknown"

\* detectFormat has answered v4 for an array whose only item has id,
\* attributes and documentId
C9_Witness ==
  /\ last.op = "detectFormat"
  /\ IsArray(heap, data)
  /\ Len(Elems(heap, data)) = 1
  /\ LegacyLike(heap, Elems(heap, data)[1])
  /\ HasProp(heap, Elems(heap, data)[1], "documentId")
  /\ last.out = "v4"

LegacyShaped(h, x) == LegacyLike(h, x) /\ ~HasProp(h, x, "documentId")

ModernShaped(h, x) == HasProp(h, x, "documentId") /\ ~HasProp(h, x, "attributes")

\* C10: for an array with an item that has id and attributes and no
\* documentId and an item that has documentId and no attributes, in any order
\* and beside any other items, detectFormat returns mixed.
C10_MixedDetection ==
  ( /\ last.op = "detectFormat"
    /\ IsArray(heap, data)
    /\ \E i \in 1..Len(Elems(heap, data)) : LegacyShaped(heap, Elems(heap, data)[i])
    /\ \E i \in 1..Len(Elems(heap, data)) : ModernShaped(heap, Elems(heap, data)[i]) )
  => last.out = "mixed"

\* mixed was returned for a modern-shaped item first, a legacy-shaped item
\* second and an item of neither shape third
C10_Witness ==
  /\ last.op = "detectFormat"
  /\ IsArray(heap, data)
  /\ Len(Elems(heap, data)) = 3
  /\ ModernShaped(heap, Elems(heap, data)[1])
  /\ LegacyShaped(heap, Elems(heap, data)[2])
  /\ ~LegacyLike(heap, Elems(heap, data)[3])
  /\ ~HasProp(heap, Elems(heap, data)[3], "documentId")
  /\ last.out = "mixed"

-----------------------------------------------------------------------------
(* DataValidator.validateFormat and getValidationReport (data-validator.ts). *)
(* The options are [strict, allowMixed, checkRelations]; maxDepth is read   *)
(* by none of the functions.                                                 *)

\* the entries of Object.entries(v): the properties of an object, the
\* elements of an array
Entries(h, v) == Deref(h, v).f

isRelationField(h, value, format) ==
  IF ~(Truthy(value) /\ IsObject(value)) THEN FALSE
  ELSE IF format = "v4" THEN Prop(h, value, "data") # Undef
  ELSE IF format = "v5" THEN IsArray(h, value) \/ Prop(h, value, "documentId") # Undef
  ELSE FALSE

\* The outcome of a call of the fast path: the boolean it returns, or the
\* engine's RangeError (ex) when its recursion never ends
Returns(b) == [v |-> b, ex |-> FALSE]
RangeError == [v |-> FALSE, ex |-> TRUE]

\* Array.prototype.every, and a loop that returns at the first failure: the
\* outcome of the first call that does not return true
Every(outcomes) ==
  LET failed == {i \in 1..Len(outcomes) : outcomes[i] # Returns(TRUE)}
  IN IF failed = {} THEN Returns(TRUE)
     ELSE outcomes[CHOOSE i \in failed : \A j \in failed : i <= j]

\* validateItem, validateV4Item, validateV5Item, validateRelations and
\* validateRelation call one another: Validate(fn, ...) is the call of fn,
\* where v is the item, the holder of the relations or the relation.  No
\* function reads options.maxDepth or keeps track of the objects it visits:
\* active is the set of calls in progress, and a call that is entered while
\* the same call is in progress repeats it without end, which the engine ends
\* with a RangeError (maximum call stack size exceeded).
RECURSIVE Validate(_, _, _, _, _, _)
Validate(fn, h, v, format, options, active) ==
  IF <<fn, v, format>> \in active THEN RangeError
  ELSE
  CASE fn = "validateItem" ->
         IF ~(Truthy(v) /\ IsObject(v)) THEN Returns(TRUE)
         ELSE IF format = "v4"
         THEN Validate("validateV4Item", h, v, format, options, active \cup {<<fn, v, format>>})
         ELSE IF format = "v5"
         THEN Validate("validateV5Item", h, v, format, options, active \cup {<<fn, v, format>>})
         ELSE Returns(FALSE)
    [] fn = "validateV4Item" ->
         IF Truthy(Prop(h, v, "id")) /\ Truthy(Prop(h, v, "attributes"))
            /\ IsObject(Prop(h, v, "attributes"))
         THEN IF options.checkRelations
              THEN Validate("validateRelations", h, Prop(h, v, "attributes"), "v4", options,
                            active \cup {<<fn, v, format>>})
              ELSE Returns(TRUE)
         ELSE IF Truthy(Prop(h, v, "id")) /\ ~Truthy(Prop(h, v, "attributes")) /\ ~options.strict
         THEN Returns(TRUE)
         ELSE IF options.allowMixed /\ Truthy(Prop(h, v, "documentId")) THEN Returns(TRUE)
         ELSE Returns(FALSE)
    [] fn = "validateV5Item" ->
         IF Truthy(Prop(h, v, "documentId"))
         THEN IF options.checkRelations
              THEN Validate("validateRelations", h, v, "v5", options,
                            active \cup {<<fn, v, format>>})
              ELSE Returns(TRUE)
         ELSE IF options.allowMixed /\ Truthy(Prop(h, v, "id")) /\ Truthy(Prop(h, v, "attributes"))
         THEN Returns(TRUE)
         ELSE IF ~options.strict /\ ~Truthy(Prop(h, v, "id")) /\ ~Truthy(Prop(h, v, "attributes"))
         THEN Returns(TRUE)
         ELSE Returns(FALSE)
    [] fn = "validateRelations" ->
         IF ~(Truthy(v) /\ IsObject(v)) THEN Returns(TRUE)
         ELSE Every([i \in 1..Len(Entries(h, v)) |->
                IF Truthy(Entries(h, v)[i].v) /\ IsObject(Entries(h, v)[i].v)
                   /\ isRelationField(h, Entries(h, v)[i].v, format)
                THEN Validate("validateRelation", h, Entries(h, v)[i].v, format, options,
                              active \cup {<<fn, v, format>>})
                ELSE Returns(TRUE)])
    [] fn = "validateRelation" ->
         IF ~Truthy(v) THEN Returns(TRUE)
         ELSE IF format = "v4" /\ Prop(h, v, "data") # Undef
         THEN IF IsArray(h, Prop(h, v, "data"))
              THEN Every([i \in 1..Len(Elems(h, Prop(h, v, "data"))) |->
                     Validate("validateItem", h, Elems(h, Prop(h, v, "data"))[i], "v4", options,
                              active \cup {<<fn, v, format>>})])
              ELSE Validate("validateItem", h, Prop(h, v, "data"), "v4", options,
                            active \cup {<<fn, v, format>>})
         ELSE IF format = "v5" /\ IsArray(h, v)
         THEN Every([i \in 1..Len(Elems(h, v)) |->
                Validate("validateItem", h, Elems(h, v)[i], "v5", options,
                         active \cup {<<fn, v, format>>})])
         ELSE IF format = "v5" /\ Truthy(Prop(h, v, "documentId"))
         THEN Validate("validateItem", h, v, "v5", options, active \cup {<<fn, v, format>>})
         ELSE Returns(TRUE)

validateItem(h, item, expectedFormat, options) ==
  Validate("validateItem", h, item, expectedFormat, options, {})

validateV4Item(h, item, options) == Validate("validateV4Item", h, item, "v4", options, {})

validateV5Item(h, item, options) == Validate("validateV5Item", h, item, "v5", options, {})

validateRelations(h, item, format, options) ==
  Validate("validateRelations", h, item, format, options, {})

validateRelation(h, relation, format, options) ==
  Validate("validateRelation", h, relation, format, options, {})

validateFormat(h, d, expectedFormat, options) ==
  IF ~Truthy(d) THEN Returns(TRUE)
  ELSE IF IsArray(h, d)
  THEN Every([i \in 1..Len(Elems(h, d)) |->
                validateItem(h, Elems(h, d)[i], expectedFormat, options)])
  ELSE validateItem(h, d, expectedFormat, options)

\* An error or a warning of the report: the template literal's parts.  item is
\* the index after "Item ", field the quoted field name ("" when the message
\* names none), rel the index after "relation " (-1 when it names none), msg
\* the fixed text.
Message(item, field, rel, msg) == [item |-> item, field |-> field, rel |-> rel, msg |-> msg]

\* the result of a detailed validation; ex: a validateItem it called threw,
\* and the exception leaves the detailed path, which catches nothing
Details(isValid, errors, warnings) ==
  [isValid |-> isValid, errors |-> errors, warnings |-> warnings, ex |-> FALSE]

Raised(details, ex) == [details EXCEPT !.ex = @ \/ ex]

\* result.errors.push(...), result.warnings.push(...) and the isValid test that
\* follow the call of a detailed validation
Merge(result, validation) ==
  [isValid |-> result.isValid /\ validation.isValid,
   errors |-> result.errors \o validation.errors,
   warnings |-> result.warnings \o validation.warnings,
   ex |-> result.ex \/ validation.ex]

\* the errors pushed by a forEach over relation items, in order
RECURSIVE RelationErrors(_, _, _, _, _, _, _)
RelationErrors(h, relItems, relIndex, format, options, itemIndex, fieldName) ==
  IF relItems = <<>> THEN <<>>
  ELSE (IF validateItem(h, Head(relItems), format, options).v THEN <<>>
        ELSE <<Message(itemIndex, fieldName, relIndex,
                       IF format = "v4" THEN "Invalid v4 format" ELSE "Invalid v5 format")>>)
       \o RelationErrors(h, Tail(relItems), relIndex + 1, format, options, itemIndex, fieldName)

\* a validateItem called for one of the relation items throws
RelationThrows(h, relItems, format, options) ==
  \E i \in 1..Len(relItems) : validateItem(h, relItems[i], format, options).ex

validateRelationWithDetails(h, relation, format, options, itemIndex, fieldName) ==
  IF ~Truthy(relation) THEN Details(TRUE, <<>>, <<>>)
  ELSE IF format = "v4"
  THEN IF Prop(h, relation, "data") = Undef
       THEN Details(FALSE,
                    <<Message(itemIndex, fieldName, -1, "v4 relation missing 'data' property")>>,
                    <<>>)
       ELSE Raised(Details(RelationErrors(h, ItemsOf(h, Prop(h, relation, "data")), 0, "v4",
                                          options, itemIndex, fieldName) = <<>>,
                           RelationErrors(h, ItemsOf(h, Prop(h, relation, "data")), 0, "v4",
                                          options, itemIndex, fieldName),
                           <<>>),
                   RelationThrows(h, ItemsOf(h, Prop(h, relation, "data")), "v4", options))
  ELSE IF format = "v5"
  THEN IF IsArray(h, relation)
       THEN Raised(Details(RelationErrors(h, Elems(h, relation), 0, "v5", options, itemIndex,
                                          fieldName) = <<>>,
                           RelationErrors(h, Elems(h, relation), 0, "v5", options, itemIndex,
                                          fieldName),
                           <<>>),
                   RelationThrows(h, Elems(h, relation), "v5", options))
       ELSE IF Truthy(Prop(h, relation, "documentId"))
       THEN IF validateItem(h, relation, "v5", options).ex
            THEN Raised(Details(FALSE, <<>>, <<>>), TRUE)
            ELSE IF validateItem(h, relation, "v5", options).v THEN Details(TRUE, <<>>, <<>>)
            ELSE Details(FALSE,
                         <<Message(itemIndex, fieldName, -1, "Invalid v5 relation format")>>,
                         <<>>)
       ELSE Details(TRUE, <<>>, <<>>)
  ELSE Details(TRUE, <<>>, <<>>)

\* the name Object.entries gives the i-th entry: the key of a property, the
\* index of an array's element
EntryKey(entries, i) == IF entries[i].k = "" THEN DigitChars[i] ELSE entries[i].k

\* the loop over Object.entries(item), from the i-th entry on
RECURSIVE RelationsFrom(_, _, _, _, _, _, _)
RelationsFrom(h, entries, i, format, options, index, result) ==
  IF i > Len(entries) THEN result
  ELSE IF Truthy(entries[i].v) /\ IsObject(entries[i].v)
          /\ isRelationField(h, entries[i].v, format)
  THEN RelationsFrom(h, entries, i + 1, format, options, index,
                     Merge(result, validateRelationWithDetails(h, entries[i].v, format, options,
                                                               index, EntryKey(entries, i))))
  ELSE RelationsFrom(h, entries, i + 1, format, options, index, result)

validateRelationsWithDetails(h, item, format, options, index) ==
  IF ~(Truthy(item) /\ IsObject(item)) THEN Details(TRUE, <<>>, <<>>)
  ELSE RelationsFrom(h, Entries(h, item), 1, format, options, index, Details(TRUE, <<>>, <<>>))

\* the checks validateItemWithDetails makes of the item's own fields
OwnFields(h, item, expectedFormat, options, index) ==
  LET e1 == IF expectedFormat = "v4" /\ ~Truthy(Prop(h, item, "id"))
            THEN <<Message(index, "id", -1, "Missing required field")>> ELSE <<>>
      e2 == IF expectedFormat = "v4" /\ ~Truthy(Prop(h, item, "attributes")) /\ options.strict
            THEN <<Message(index, "attributes", -1, "Missing required field")>> ELSE <<>>
      w1 == IF expectedFormat = "v4" /\ Truthy(Prop(h, item, "documentId"))
               /\ ~options.allowMixed
            THEN <<Message(index, "documentId", -1, "Contains v5 field")>> ELSE <<>>
      e3 == IF expectedFormat = "v5" /\ ~Truthy(Prop(h, item, "documentId"))
            THEN <<Message(index, "documentId", -1, "Missing required field")>> ELSE <<>>
      w2 == IF expectedFormat = "v5" /\ Truthy(Prop(h, item, "attributes"))
               /\ ~options.allowMixed
            THEN <<Message(index, "attributes", -1, "Contains v4 field")>> ELSE <<>>
  IN Details(e1 = <<>> /\ e2 = <<>> /\ e3 = <<>>, e1 \o e2 \o e3, w1 \o w2)

validateItemWithDetails(h, item, expectedFormat, options, index) ==
  IF ~(Truthy(item) /\ IsObject(item))
  THEN Details(FALSE, <<Message(index, "", -1, "Expected object")>>, <<>>)
  ELSE IF options.checkRelations
  THEN Merge(OwnFields(h, item, expectedFormat, options, index),
             validateRelationsWithDetails(h, item, expectedFormat, options, index))
  ELSE OwnFields(h, item, expectedFormat, options, index)

\* the body of the forEach of getValidationReport for an item validated as v
CountItem(report, v) ==
  IF v.isValid
  THEN [report EXCEPT !.validItems = @ + 1, !.warnings = @ \o v.warnings, !.ex = @ \/ v.ex]
  ELSE [report EXCEPT !.invalidItems = @ + 1, !.errors = @ \o v.errors,
                      !.warnings = @ \o v.warnings, !.ex = @ \/ v.ex]

\* the forEach of getValidationReport, from the item of the given index on
RECURSIVE ReportFrom(_, _, _, _, _, _)
ReportFrom(h, items, index, expectedFormat, options, report) ==
  IF index >= Len(items) THEN report
  ELSE ReportFrom(h, items, index + 1, expectedFormat, options,
                  CountItem(report, validateItemWithDetails(h, items[index + 1], expectedFormat,
                                                            options, index)))

\* report.isValid = report.invalidItems === 0
Conclude(report) == [report EXCEPT !.isValid = (report.invalidItems = 0)]

getValidationReport(h, d, expectedFormat, options) ==
  IF ~Truthy(d) THEN NoReport
  ELSE Conclude(ReportFrom(h, ItemsOf(h, d), 0, expectedFormat, options,
                           [NoReport EXCEPT !.itemCount = Len(ItemsOf(h, d))]))

-----------------------------------------------------------------------------
(* The validator applied to bounded payloads *)

\* a legacy item with attributes; a modern item with a title
Legacy(id, attributes) == Obj(<<P("id", id), P("attributes", attributes)>>)
Modern(documentId) == Obj(<<P("documentId", documentId), P("title", Title)>>)

\* a relation item no format accepts by default: it has an id and no
\* attributes object for a modern one, no id for a legacy one
NoLegacyItem == Obj(<<P("title", Title)>>)
NoModernItem == Obj(<<P("id", Num(7))>>)

\* the attributes of a legacy item: none, no relation, a relation to a
\* legacy item, a relation to an item with no id, a relation to a list with
\* such an item
ValidateAttributes ==
  {Undef, Obj(<<P("title", Title)>>),
   Obj(<<P("author", Obj(<<P("data", Legacy(Num(2), Obj(<<>>)))>>))>>),
   Obj(<<P("author", Obj(<<P("data", NoLegacyItem)>>))>>),
   Obj(<<P("tags", Obj(<<P("data", ArrayOf(<<Legacy(Num(2), Obj(<<>>)), NoLegacyItem>>))>>))>>)}

\* a top-level field tags: none, a list of modern items, a list with an item
\* that has an id and no documentId, a single modern item, a single item
\* whose documentId is the empty string
ValidateTags ==
  {Undef, ArrayOf(<<Modern(Str(<<"e">>))>>), ArrayOf(<<Modern(Str(<<"e">>)), NoModernItem>>),
   Modern(Str(<<"e">>)), Obj(<<P("documentId", Str(<<>>)), P("id", Num(7))>>)}

ValidateItems ==
  {Obj(OptField("id", i) \o OptField("attributes", a) \o OptField("documentId", d)
       \o OptField("tags", t)) :
     i \in {Undef, Num(1)}, a \in ValidateAttributes, d \in {Undef, Str(<<"d">>)},
     t \in ValidateTags}

\* the items of the arrays: for each format a valid item, an item without its
\* required field and an item with an invalid relation, and an item with id,
\* attributes and documentId whose attributes hold an invalid relation
ReportItems ==
  {Legacy(Num(1), Obj(<<P("title", Title)>>)),
   Obj(<<P("attributes", Obj(<<P("title", Title)>>))>>),
   Legacy(Num(1), Obj(<<P("author", Obj(<<P("data", NoLegacyItem)>>))>>)),
   Modern(Str(<<"d">>)),
   Obj(<<P("title", Title)>>),
   Obj(<<P("documentId", Str(<<"d">>)), P("tags", ArrayOf(<<Modern(Str(<<"e">>)), NoModernItem>>))>>),
   Obj(<<P("id", Num(1)),
         P("attributes", Obj(<<P("author", Obj(<<P("data", NoLegacyItem)>>))>>)),
         P("documentId", Str(<<"d">>))>>)}

ValidateInputs ==
  {Undef, Null} \cup ValidateItems \cup {ArrayOf(is) : is \in SeqsUpTo(ReportItems, MaxItems)}

\* options.maxDepth ?? 5
DefaultMaxDepth == 5

\* item i is {documentId: 'd', next: item i+1}
ModernChain(n) ==
  [heap |-> [a \in 1..n |->
               Obj(<<P("documentId", Str(<<"d">>))>>
                   \o (IF a < n THEN <<P("next", Ref(a + 1))>> ELSE <<>>))],
   data |-> Ref(1)]

\* a = {id: 1, attributes: {tags: {data: [{title: 't'}, a]}}}: an item that is
\* no legacy item comes before the item itself
SelfAfterInvalid ==
  [heap |-> <<Obj(<<P("id", Num(1)), P("attributes", Ref(2))>>),
              Obj(<<P("tags", Ref(3))>>),
              Obj(<<P("data", Ref(4))>>),
              Arr(<<P("", NoLegacyItem), P("", Ref(1))>>)>>,
   data |-> Ref(1)]

\* a = {documentId: 'd', peer: b}; b = {documentId: 'e', peer: a}
MutualModern ==
  [heap |-> <<Obj(<<P("documentId", Str(<<"d">>)), P("peer", Ref(2))>>),
              Obj(<<P("documentId", Str(<<"e">>)), P("peer", Ref(1))>>)>>,
   data |-> Ref(1)]

\* payloads made of the caller's objects: items that refer back to themselves
\* and chains of relations shorter and longer than maxDepth
ValidateGraphs ==
  {SelfRelation, SelfModern, SelfAfterInvalid, MutualModern}
  \cup {RelationChain(n) : n \in {2, DefaultMaxDepth + 2}}
  \cup {ModernChain(n) : n \in {2, DefaultMaxDepth + 2}}

AllValidationOptions ==
  {ValidationOptions(s, m, c) : s \in BOOLEAN, m \in BOOLEAN, c \in BOOLEAN}

InitValidate ==
  /\ mappings = <<>>
  /\ reverseMappings = <<>>
  /\ cache = {}
  /\ \/ heap = <<>> /\ data \in ValidateInputs
     \/ \E in \in ValidateGraphs : heap = in.heap /\ data = in.data
  /\ ctl = Idle
  /\ stack = <<>>
  /\ last = NoCall

ValidateFormat(expectedFormat, options) ==
  /\ last.calls < MaxCalls
  /\ last' = [NoCall EXCEPT !.op = "validateFormat", !.id = data, !.src = expectedFormat,
                            !.vopt = options, !.calls = last.calls + 1,
                            !.ex = validateFormat(heap, data, expectedFormat, options).ex,
                            !.ret = IF validateFormat(heap, data, expectedFormat, options).ex
                                    THEN Undef
                                    ELSE Bool(validateFormat(heap, data, expectedFormat,
                                                             options).v)]
  /\ UNCHANGED <<mappings, reverseMappings, cache, heap, data, ctl, stack>>

GetValidationReport(expectedFormat, options) ==
  /\ last.calls < MaxCalls
  /\ last' = [NoCall EXCEPT !.op = "getValidationReport", !.id = data, !.src = expectedFormat,
                            !.vopt = options, !.calls = last.calls + 1,
                            !.ex = getValidationReport(heap, data, expectedFormat, options).ex,
                            !.rep = getValidationReport(heap, data, expectedFormat, options)]
  /\ UNCHANGED <<mappings, reverseMappings, cache, heap, data, ctl, stack>>

NextValidate ==
  \/ \E f \in Formats, o \in AllValidationOptions : ValidateFormat(f, o)
  \/ \E f \in Formats, o \in AllValidationOptions : GetValidationReport(f, o)

SpecValidate == InitValidate /\ [][NextValidate]_vars

\* the item lacks the field its expected format requires
MissesRequired(h, item, format, options) ==
  IF format = "v4"
  THEN ~HasProp(h, item, "id") \/ (options.strict /\ ~HasProp(h, item, "attributes"))
  ELSE ~HasProp(h, item, "documentId")

\* the item holds a relation that validateFormat rejects: for a legacy item
\* the relations are the fields of its attributes, for a modern item its own
HasInvalidRelation(h, item, format, options) ==
  IF format = "v4"
  THEN ~validateRelations(h, Prop(h, item, "attributes"), "v4", options).v
  ELSE ~validateRelations(h, item, "v5", options).v

\* C11: with relations checked and no mixing allowed, getValidationReport
\* examines every item: invalidItems is the number of items that miss a
\* required field or contain an invalid relation, validItems the number of
\* the others, and errors names the index of every invalid item, for expected
\* format v4 as well as v5.
C11_ReportComplete ==
  ( /\ last.op = "getValidationReport"
    /\ Truthy(data)
    /\ last.vopt.checkRelations
    /\ ~last.vopt.allowMixed )
  => LET items == ItemsOf(heap, data)
         bad == {i \in 1..Len(items) :
                   \/ MissesRequired(heap, items[i], last.src, last.vopt)
                   \/ HasInvalidRelation(heap, items[i], last.src, last.vopt)}
     IN /\ last.rep.itemCount = Len(items)
        /\ last.rep.invalidItems = Cardinality(bad)
        /\ last.rep.validItems = Len(items) - Cardinality(bad)
        /\ \A i \in bad : \E e \in 1..Len(last.rep.errors) : last.rep.errors[e].item = i - 1

\* C12: with allowMixed and expected format v4, validateFormat accepts a
\* payload all of whose items carry a documentId, whatever their other
\* fields, strict and their relations.
C12_MixedAccepted ==
  ( /\ last.op = "validateFormat"
    /\ last.src = "v4"
    /\ last.vopt.allowMixed
    /\ Truthy(data)
    /\ \A i \in 1..Len(ItemsOf(heap, data)) : HasProp(heap, ItemsOf(heap, data)[i], "documentId") )
  => last.ret = Bool(TRUE)

\* the item's own fields are those the format accepts under the options
Accepts(h, x, format, options) ==
  IF format = "v4"
  THEN \/ Truthy(Prop(h, x, "id")) /\ Truthy(Prop(h, x, "attributes"))
          /\ IsObject(Prop(h, x, "attributes"))
       \/ Truthy(Prop(h, x, "id")) /\ ~Truthy(Prop(h, x, "attributes")) /\ ~options.strict
       \/ options.allowMixed /\ Truthy(Prop(h, x, "documentId"))
  ELSE \/ Truthy(Prop(h, x, "documentId"))
       \/ options.allowMixed /\ Truthy(Prop(h, x, "id")) /\ Truthy(Prop(h, x, "attributes"))
       \/ ~options.strict /\ ~Truthy(Prop(h, x, "id")) /\ ~Truthy(Prop(h, x, "attributes"))

\* the objects among the members of a sequence
ObjectsIn(items) == {items[i] : i \in {j \in 1..Len(items) : Truthy(items[j]) /\ IsObject(items[j])}}

\* the items in the relation fields of x: for the legacy format the data of
\* the properties of x.attributes that have a data key, for the modern format
\* the elements of the properties that are arrays and the properties that are
\* objects with a documentId
RelatedItems(h, x, format) ==
  IF format = "v4"
  THEN IF ~(Truthy(Prop(h, x, "attributes")) /\ IsObject(Prop(h, x, "attributes"))) THEN {}
       ELSE UNION {IF HasProp(h, e.v, "data") THEN ObjectsIn(ItemsOf(h, Prop(h, e.v, "data")))
                   ELSE {} :
                     e \in {Entries(h, Prop(h, x, "attributes"))[i] :
                              i \in 1..Len(Entries(h, Prop(h, x, "attributes")))}}
  ELSE UNION {IF Truthy(e.v) /\ IsObject(e.v) /\ IsArray(h, e.v) THEN ObjectsIn(Elems(h, e.v))
              ELSE IF HasProp(h, e.v, "documentId") THEN {e.v}
              ELSE {} :
                e \in {Entries(h, x)[i] : i \in 1..Len(Entries(h, x))}}

\* the items reachable from those of S through relation fields
RECURSIVE Reachable(_, _, _)
Reachable(h, S, format) ==
  IF UNION {RelatedItems(h, x, format) : x \in S} \subseteq S THEN S
  ELSE Reachable(h, S \cup UNION {RelatedItems(h, x, format) : x \in S}, format)

\* the items in relations reachable from the payload's items
InRelations(h, d, format) ==
  Reachable(h, UNION {RelatedItems(h, x, format) : x \in ObjectsIn(ItemsOf(h, d))}, format)

\* C23: with checkRelations, validateFormat returns false whenever an item in
\* a relation reachable from the payload's items through relation fields is
\* one the expected format does not accept; without checkRelations it returns
\* whether the format accepts the payload's own items, whatever their relation
\* fields hold.
C23_RelationsChecked ==
  (last.op = "validateFormat" /\ Truthy(data))
  => /\ ( /\ last.vopt.checkRelations
          /\ \E x \in InRelations(heap, data, last.src) :
               ~Accepts(heap, x, last.src, last.vopt) )
        => last.ret = Bool(FALSE)
     /\ ~last.vopt.checkRelations
        => last.ret = Bool(\A x \in ObjectsIn(ItemsOf(heap, data)) :
                             Accepts(heap, x, last.src, last.vopt))

\* C21: validateFormat returns a boolean and getValidationReport returns a
\* report for every input: neither call ends with an exception, also for an
\* item whose relation field refers back to the item and for chains of
\* relations nested deeper than maxDepth.
C21_ValidationCompletes ==
  last.op \in {"validateFormat", "getValidationReport"} => ~last.ex

\* C26: for every payload, expected format and options, validateFormat
\* returns true exactly when getValidationReport returns a report whose
\* isValid is true.
C26_PathsAgree ==
  last.op \in {"validateFormat", "getValidationReport"}
  => ( (/\ ~validateFormat(heap, data, last.src, last.vopt).ex
        /\ validateFormat(heap, data, last.src, last.vopt).v)
       <=> (/\ ~getValidationReport(heap, data, last.src, last.vopt).ex
            /\ getValidationReport(heap, data, last.src, last.vopt).isValid) )

-----------------------------------------------------------------------------
(* SchemaValidator (data-validator.ts).  A schema is {attributes: {name:     *)
(* {type, required, maxLength, min, max}}}.                                  *)

\* typeof v
Typeof(v) ==
  CASE v.t = "undefined" -> "undefined"
    [] v.t \in {"number", "NaN"} -> "number"
    [] v.t = "string" -> "string"
    [] v.t = "boolean" -> "boolean"
    [] OTHER -> "object"

\* the names of the attribute types, as the strings a schema holds
TypeName(name) ==
  CASE name = "string" -> Str(<<"s", "t", "r", "i", "n", "g">>)
    [] name = "number" -> Str(<<"n", "u", "m", "b", "e", "r">>)
    [] name = "integer" -> Str(<<"i", "n", "t", "e", "g", "e", "r">>)
    [] name = "boolean" -> Str(<<"b", "o", "o", "l", "e", "a", "n">>)
    [] name = "array" -> Str(<<"a", "r", "r", "a", "y">>)
    [] name = "object" -> Str(<<"o", "b", "j", "e", "c", "t">>)

\* the switch of validateAttributeType; a type it has no case for passes
validateAttributeType(h, value, expectedType, attrName) ==
  LET wrong ==
        CASE expectedType = TypeName("string") -> Typeof(value) # "string"
          [] expectedType \in {TypeName("number"), TypeName("integer")} ->
               Typeof(value) # "number"
          [] expectedType = TypeName("boolean") -> Typeof(value) # "boolean"
          [] expectedType = TypeName("array") -> ~IsArray(h, value)
          [] expectedType = TypeName("object") -> Typeof(value) # "object" \/ IsArray(h, value)
          [] OTHER -> FALSE
  IN IF wrong THEN Details(FALSE, <<Message(0, attrName, -1, "must be of the type")>>, <<>>)
     ELSE Details(TRUE, <<>>, <<>>)

validateAttribute(h, value, attrSchema, attrName) ==
  IF ~Truthy(attrSchema) THEN Details(TRUE, <<>>, <<>>)
  ELSE IF Truthy(Prop(h, attrSchema, "required")) /\ value \in {Undef, Null}
  THEN Details(FALSE, <<Message(0, attrName, -1, "Required attribute is missing")>>, <<>>)
  ELSE IF value \in {Undef, Null} THEN Details(TRUE, <<>>, <<>>)
  ELSE IF Truthy(Prop(h, attrSchema, "type"))
  THEN validateAttributeType(h, value, Prop(h, attrSchema, "type"), attrName)
  ELSE Details(TRUE, <<>>, <<>>)

\* the loop over Object.entries(schema.attributes), from the i-th entry on
RECURSIVE AttributesFrom(_, _, _, _, _)
AttributesFrom(h, item, entries, i, report) ==
  IF i > Len(entries) THEN report
  ELSE AttributesFrom(h, item, entries, i + 1,
         Merge(report, validateAttribute(h, Prop(h, item, entries[i].k), entries[i].v,
                                         entries[i].k)))

validateAgainstSchema(h, item, schema) ==
  IF ~Truthy(schema) \/ ~Truthy(Prop(h, schema, "attributes"))
  THEN [NoReport EXCEPT !.itemCount = 1, !.isValid = FALSE,
                        !.errors = <<Message(0, "", -1, "Schema is required")>>]
  ELSE IF ~(Truthy(item) /\ IsObject(item))
  THEN [NoReport EXCEPT !.itemCount = 1, !.isValid = FALSE,
                        !.errors = <<Message(0, "", -1, "Item must be an object")>>]
  ELSE LET result == AttributesFrom(h, item, Entries(h, Prop(h, schema, "attributes")), 1,
                                    Details(TRUE, <<>>, <<>>))
       IN [NoReport EXCEPT !.itemCount = 1, !.isValid = result.isValid,
                           !.errors = result.errors, !.warnings = result.warnings,
                           !.validItems = IF result.isValid THEN 1 ELSE 0,
                           !.invalidItems = IF result.isValid THEN 0 ELSE 1]

\* the values of the attribute title: missing, null, strings of 0, 1 and 3
\* characters, a number, a list; of the attribute count: missing, numbers,
\* a string; extra is a field no schema declares
SchemaItems ==
  {Undef, Null, Str(<<"x">>)}
  \cup {Obj(OptField("title", t) \o OptField("count", c) \o OptField("extra", e)) :
          t \in {Undef, Null, Str(<<>>), Str(<<"a">>), Str(<<"a", "b", "c">>), Num(3),
                 Arr(<<>>)},
          c \in {Undef, Num(0), Num(7), Num(0 - 2), Str(<<"7">>)},
          e \in {Undef, Obj(<<>>)}}

\* {type, required, maxLength, min, max}
AttributeSchema(type, required, maxLength, min, max) ==
  Obj(OptField("type", type) \o OptField("required", required)
      \o OptField("maxLength", maxLength) \o OptField("min", min) \o OptField("max", max))

Schemas ==
  {Undef, Obj(<<>>)}
  \cup {Obj(<<P("attributes",
                Obj(<<P("title", AttributeSchema(tt, r, ml, Undef, Undef)),
                      P("count", AttributeSchema(ct, Undef, Undef, mn, mx))>>))>>) :
          tt \in {Undef, TypeName("string"), TypeName("array"), TypeName("object")},
          r \in {Undef, Bool(TRUE)},
          ml \in {Undef, Num(2)},
          ct \in {TypeName("number"), TypeName("integer"), TypeName("boolean")},
          mn \in {Undef, Num(0)},
          mx \in {Undef, Num(5)}}

InitSchema ==
  /\ mappings = <<>>
  /\ reverseMappings = <<>>
  /\ cache = {}
  /\ heap = <<>>
  /\ data \in SchemaItems
  /\ ctl = Idle
  /\ stack = <<>>
  /\ last = NoCall

\* the call validateAgainstSchema(data, schema); the schema is kept in last.id
ValidateAgainstSchema(schema) ==
  /\ last.calls < MaxCalls
  /\ last' = [NoCall EXCEPT !.op = "validateAgainstSchema", !.id = schema,
                            !.calls = last.calls + 1,
                            !.rep = validateAgainstSchema(heap, data, schema)]
  /\ UNCHANGED <<mappings, reverseMappings, cache, heap, data, ctl, stack>>

NextSchema == \E schema \in Schemas : ValidateAgainstSchema(schema)

SpecSchema == InitSchema /\ [][NextSchema]_vars

\* the attribute's value in the item breaks what the schema declares for it
BreaksSchema(h, item, attrName, attrSchema) ==
  LET value == Prop(h, item, attrName)
      type == Prop(h, attrSchema, "type")
  IN IF value \in {Undef, Null} THEN Truthy(Prop(h, attrSchema, "required"))
     ELSE \/ type # Undef /\ ~validateAttributeType(h, value, type, attrName).isValid
          \/ /\ Prop(h, attrSchema, "maxLength") # Undef /\ value.t = "string"
             /\ Len(value.s) > Prop(h, attrSchema, "maxLength").n
          \/ /\ Prop(h, attrSchema, "min") # Undef /\ value.t = "number"
             /\ value.n < Prop(h, attrSchema, "min").n
          \/ /\ Prop(h, attrSchema, "max") # Undef /\ value.t = "number"
             /\ value.n > Prop(h, attrSchema, "max").n

\* C22: for an object item and a schema with attributes, the report of
\* validateAgainstSchema has an error for a declared attribute exactly when
\* the attribute is required and missing, has the wrong type, is longer than
\* maxLength or lies outside [min, max]; the report is invalid exactly when
\* there is such an attribute, and no error names an undeclared field.
C22_SchemaChecked ==
  ( /\ last.op = "validateAgainstSchema"
    /\ Truthy(last.id) /\ Truthy(Prop(heap, last.id, "attributes"))
    /\ Truthy(data) /\ IsObject(data) )
  => LET declared == Entries(heap, Prop(heap, last.id, "attributes"))
         named == {last.rep.errors[e].field : e \in 1..Len(last.rep.errors)}
         broken == {declared[i].k : i \in {j \in 1..Len(declared) :
                      BreaksSchema(heap, data, declared[j].k, declared[j].v)}}
     IN /\ named = broken
        /\ last.rep.isValid = (broken = {})

-----------------------------------------------------------------------------
(* PaginationMapper.normalizePagination (data-mapper.ts) *)

\* String(v) for an integer, a string or a boolean
StringOf(v) ==
  CASE v.t = "number" -> IF v.n < 0 THEN <<"-">> \o NatToString(0 - v.n) ELSE NatToString(v.n)
    [] v.t = "boolean" -> IF v.n = 1 THEN <<"t", "r", "u", "e">> ELSE <<"f", "a", "l", "s", "e">>
    [] v.t = "NaN" -> <<"N", "a", "N">>
    [] OTHER -> v.s

\* the characters of cs after its leading blanks
RECURSIVE TrimStart(_)
TrimStart(cs) == IF cs # <<>> /\ Head(cs) = " " THEN TrimStart(Tail(cs)) ELSE cs

\* the longest prefix of cs made of digits
DigitPrefix(cs) ==
  LET k == CHOOSE i \in 0..Len(cs) :
             /\ \A j \in 1..i : IsDigit(cs[j])
             /\ (i = Len(cs) \/ ~IsDigit(cs[i + 1]))
  IN SubSeq(cs, 1, k)

\* parseInt(v, 10): blanks are skipped, a sign is read, then digits up to the
\* first character that is none; NaN when there is no digit
parseInt(v) ==
  LET cs == TrimStart(StringOf(v))
      signed == cs # <<>> /\ Head(cs) \in {"-", "+"}
      digits == DigitPrefix(IF signed THEN Tail(cs) ELSE cs)
  IN IF digits = <<>> THEN NaN
     ELSE IF signed /\ Head(cs) = "-" THEN Num(0 - ParseDigits(digits, 0))
     ELSE Num(ParseDigits(digits, 0))

\* Math.max and Math.min of two numbers: NaN when either is NaN
MathMax(a, b) == IF a.t = "NaN" \/ b.t = "NaN" THEN NaN ELSE IF a.n >= b.n THEN a ELSE b
MathMin(a, b) == IF a.t = "NaN" \/ b.t = "NaN" THEN NaN ELSE IF a.n <= b.n THEN a ELSE b

normalizePagination(h, pagination) ==
  IF ~Truthy(pagination) THEN Undef
  ELSE Obj(<<
    P("page", MathMax(Num(1), parseInt(OrElse(Prop(h, pagination, "page"), Str(<<"1">>))))),
    P("pageSize", MathMin(Num(100), MathMax(Num(1),
         parseInt(OrElse(Prop(h, pagination, "pageSize"), Str(<<"2", "5">>)))))),
    P("pageCount", MathMax(Num(1),
         parseInt(OrElse(Prop(h, pagination, "pageCount"), Str(<<"1">>))))),
    P("total", MathMax(Num(0), parseInt(OrElse(Prop(h, pagination, "total"), Str(<<"0">>)))))>>)

\* the values of a pagination field: missing, null, numbers, numeric strings
\* (signed, padded, followed by letters), strings that are no number
PageValues ==
  {Undef, Null, Num(0), Num(3), Num(500), Num(0 - 5),
   Str(<<"-", "5">>), Str(<<"5", "0", "0">>), Str(<<" ", "7">>), Str(<<"1", "2", "p", "x">>),
   Str(<<"a", "b", "c">>), Str(<<>>)}

PaginationInputs ==
  {Undef, Null}
  \cup {Obj(OptField("page", p) \o OptField("pageSize", s) \o OptField("pageCount", c)
            \o OptField("total", t)) :
          p \in PageValues, s \in PageValues, c \in {Undef, Num(3), Str(<<"a", "b", "c">>)},
          t \in {Undef, Num(0), Str(<<"-", "5">>), Str(<<"a", "b", "c">>)}}

InitPagination ==
  /\ mappings = <<>>
  /\ reverseMappings = <<>>
  /\ cache = {}
  /\ heap = <<>>
  /\ data \in PaginationInputs
  /\ ctl = Idle
  /\ stack = <<>>
  /\ last = NoCall

NormalizePagination ==
  /\ last' = [NoCall EXCEPT !.op = "normalizePagination", !.id = data,
                            !.ret = normalizePagination(heap, data)]
  /\ UNCHANGED <<mappings, reverseMappings, cache, heap, data, ctl, stack>>

NextPagination == NormalizePagination

SpecPagination == InitPagination /\ [][NextPagination]_vars

\* the field of the normalized pagination is an integer within lo..hi (hi = -1:
\* no upper limit) and is dflt when the input has no such field
Normalized(key, lo, hi, dflt) ==
  LET v == Prop(heap, last.ret, key)
  IN /\ v.t = "number"
     /\ v.n >= lo
     /\ (hi # -1 => v.n <= hi)
     /\ (Prop(heap, data, key) = Undef => v.n = dflt)

\* C13: for every non-empty pagination, normalizePagination returns an object
\* whose fields are integers with page >= 1, 1 <= pageSize <= 100,
\* pageCount >= 1 and total >= 0, a missing field being 1, 25, 1 and 0, also
\* when a field is a string that is no number.
C13_NormalizedBounds ==
  (last.op = "normalizePagination" /\ Truthy(data))
  => /\ Normalized("page", 1, -1, 1)
     /\ Normalized("pageSize", 1, 100, 25)
     /\ Normalized("pageCount", 1, -1, 1)
     /\ Normalized("total", 0, -1, 0)

-----------------------------------------------------------------------------
(* Claims about the registry, checked under Spec *)

\* C1: in every state reachable by mapV4ToV5, clearMappings,
\* clearMappingsForContentType and importMappings, every record under a forward
\* key is the record the reverse index holds under its documentId, every
\* reverse record is in the forward index, and the reverse lookup of
\* (documentId, contentType) gives the record's v4Id.
C1_IndicesConsistent ==
  /\ \A i \in 1..Len(mappings) :
       LET m == mappings[i].m
       IN /\ MapHas(reverseMappings, m.v5DocumentId)
          /\ MapGet(reverseMappings, m.v5DocumentId) = m
          /\ mapV5ToV4(mappings, reverseMappings, m.v5DocumentId, m.contentType).ret = m.v4Id
  /\ \A j \in 1..Len(reverseMappings) :
       \E i \in 1..Len(mappings) : mappings[i].m = reverseMappings[j].m

\* a number and the string of its digits count as the same id
SameId(a, b) == ToStr(a) = ToStr(b)

\* C2: after mapV4ToV5(v, T) has returned d in any registry state,
\* mapV5ToV4(d, T) returns v (up to the coercion of a number to its digits).
C2_MappingBijection ==
  last.op = "mapV4ToV5" =>
    LET back == mapV5ToV4(mappings, reverseMappings, last.ret, last.ct)
    IN ~back.ex /\ SameId(back.ret, last.id)

\* C3: a call of mapV4ToV5 leaves a record under the key of (v, T) that holds the
\* documentId it returned; while neither a clear nor an import runs, that
\* record keeps its documentId through every mapV4ToV5 and mapV5ToV4 call, and
\* a later mapV4ToV5(v, T) returns that documentId and adds no record to
\* either index.
C3_DeterministicUnderReuse ==
  [][ /\ last'.op = "mapV4ToV5" =>
           /\ hasMapping(mappings', last'.id, last'.ct)
           /\ MapGet(mappings', MappingKey(last'.id, last'.ct)).v5DocumentId = last'.ret
      /\ \A v \in V4Ids, T \in ContentTypes :
           (hasMapping(mappings, v, T) /\ last'.op \in {"mapV4ToV5", "mapV5ToV4"}) =>
             /\ hasMapping(mappings', v, T)
             /\ MapGet(mappings', MappingKey(v, T)).v5DocumentId
                  = MapGet(mappings, MappingKey(v, T)).v5DocumentId
             /\ (last'.op = "mapV4ToV5" /\ last'.id = v /\ last'.ct = T) =>
                  /\ last'.ret = MapGet(mappings, MappingKey(v, T)).v5DocumentId
                  /\ Len(mappings') = Len(mappings)
                  /\ Len(reverseMappings') = Len(reverseMappings)
    ]_vars

\* a mapV4ToV5 call that found its record in a registry of two records
C3_Witness ==
  /\ last.op = "mapV4ToV5"
  /\ last.n = 2
  /\ Len(mappings) = 2

\* the step importMappings(exportMappings())
ReImport == ImportMappings(exportMappings(mappings))

\* C20: importMappings(exportMappings()) leaves the registry with exactly the
\* records it held, and for each of them mapV4ToV5(v4Id, contentType) returns
\* its documentId and creates no record, and mapV5ToV4(documentId,
\* contentType) returns its v4Id.
C20_ExportImportRoundTrip ==
  [][ReImport =>
       /\ ~last'.ex
       /\ mappings' = mappings
       /\ \A i \in 1..Len(mappings) :
            LET m == mappings[i].m
                r == mapV4ToV5(mappings', reverseMappings', m.v4Id, m.contentType, 7, <<"k">>)
            IN /\ r.ret = m.v5DocumentId
               /\ r.fwd = mappings'
               /\ mapV5ToV4(mappings', reverseMappings', m.v5DocumentId, m.contentType).ret
                    = m.v4Id]_vars


\* the entries of an index whose record is of another resource type than T
OfOtherTypes(map, T) == SelectSeq(map, LAMBDA e : e.m.contentType # T)

\* C24: clearMappingsForContentType(T) leaves no record of T in the forward or
\* the reverse index and leaves the entries of every other resource type in
\* both as they were; afterwards hasMapping(v, T) is false for every v, and
\* hasMapping and mapV5ToV4 for another resource type return what they
\* returned before.
C24_ClearByType ==
  [][last'.op = "clearMappingsForContentType" =>
       LET T == last'.ct
       IN /\ OfOtherTypes(mappings', T) = mappings'
          /\ OfOtherTypes(reverseMappings', T) = reverseMappings'
          /\ mappings' = OfOtherTypes(mappings, T)
          /\ reverseMappings' = OfOtherTypes(reverseMappings, T)
          /\ \A v \in V4Ids : ~hasMapping(mappings', v, T)
          /\ \A U \in ContentTypes \ {T} :
               /\ \A v \in V4Ids : hasMapping(mappings', v, U) = hasMapping(mappings, v, U)
               /\ \A d \in KnownDocumentIds :
                    mapV5ToV4(mappings', reverseMappings', d, U)
                      = mapV5ToV4(mappings, reverseMappings, d, U)]_vars


\* C27: an importMappings call that throws leaves the forward and the reverse
\* index as they were before the call.
C27_ImportAtomic ==
  [][(last'.op = "importMappings" /\ last'.ex)
       => (mappings' = mappings /\ reverseMappings' = reverseMappings)]_vars


\* C28: after mapV4ToV5(v, T) the record under the key of (v, T) is the record
\* of that very pair, with the id of the same type, and holds the documentId
\* returned; no record of another pair holds that documentId.
C28_PairsApart ==
  last.op = "mapV4ToV5" =>
    /\ MapGet(mappings, MappingKey(last.id, last.ct)).v4Id = last.id
    /\ MapGet(mappings, MappingKey(last.id, last.ct)).contentType = last.ct
    /\ MapGet(mappings, MappingKey(last.id, last.ct)).v5DocumentId = last.ret
    /\ \A i \in 1..Len(mappings) :
         mappings[i].m.v5DocumentId = last.ret
           => (mappings[i].m.v4Id = last.id /\ mappings[i].m.contentType = last.ct)

=============================================================================
